---- MODULE Spec2Model ----
(***************************************************************************)
(* Map tile caches of miguelemosreverte/Map.                               *)
(*                                                                         *)
(*   internal/tileserver  TileCache        raster tiles, disk store,       *)
(*                                         in-flight registry, fetch queue *)
(*                                         and background workers          *)
(*   internal/vectortile  VectorTileCache  decoded vector tiles, in-memory *)
(*                                         map, in-flight registry         *)
(*   pkg/tiles            TileCoord        keys, adjacency                 *)
(*                                                                         *)
(* Every goroutine that runs cache code is a process with a program        *)
(* counter; one action is one atomic step of the Go code (a file system    *)
(* call, a mutex operation, a channel operation, a map access under its    *)
(* lock).                                                                  *)
(***************************************************************************)
EXTENDS Integers, Sequences, FiniteSets, TLC

(***************************************************************************)
(* Bounds of the model.                                                    *)
(***************************************************************************)
NumCallers == 2     \* goroutines that call GetTile (tileLoader, HTTP handlers)
NumWorkers == 1     \* NewTileCache(cacheDir, workers): the workers of the cache
MaxWorkers == 2     \* the greatest workers argument, in WorkerSpec
QueueCap == 2       \* capacity of fetchQueue (make(chan tiles.TileCoord, 1000))
MaxCalls == 3       \* GetTile calls issued in one behaviour
MaxFaults == 1      \* origin and disk failures in one behaviour
LiveCalls == 2      \* GetTile calls in one behaviour of the fair specification
PoolCalls == 2      \* calls of any operation in one behaviour of PoolSpec
MaxPans == 5        \* calls that move the camera in one behaviour of CameraSpec

\* Smallest and largest zoom level (tile.go: adjZoom < 2 || adjZoom > 18).
MinZoom == 2
MaxZoom == 18
DefaultZoom == 12

Callers == 1..NumCallers

\* The goroutines that NewTileCache starts when called with n workers
\* (lines 170-173).
Started(n) == (NumCallers + 1)..(NumCallers + n)

(***************************************************************************)
(* pkg/tiles: TileCoord, its key and the adjacency order.                  *)
(***************************************************************************)
RECURSIVE Pow2(_)
Pow2(n) == IF n = 0 THEN 1 ELSE 2 * Pow2(n - 1)

TileCoord(x, y, zoom) == [X |-> x, Y |-> y, Zoom |-> zoom]

\* TileCoord.String: "zoom/x/y", the three numbers in that order.
String(t) == <<t.Zoom, t.X, t.Y>>

\* GetAdjacentTiles with the first two appends exchanged: left, right, down, up.
GetAdjacentTilesLeftFirst(t) ==
    LET maxTile == Pow2(t.Zoom) - 1
        right == IF t.X + 1 <= maxTile THEN <<TileCoord(t.X + 1, t.Y, t.Zoom)>> ELSE <<>>
        left  == IF t.X - 1 >= 0 THEN <<TileCoord(t.X - 1, t.Y, t.Zoom)>> ELSE <<>>
        down  == IF t.Y + 1 <= maxTile THEN <<TileCoord(t.X, t.Y + 1, t.Zoom)>> ELSE <<>>
        up    == IF t.Y - 1 >= 0 THEN <<TileCoord(t.X, t.Y - 1, t.Zoom)>> ELSE <<>>
    IN  left \o right \o down \o up

\* GetAdjacentTiles without the range checks: always four neighbours.
GetAdjacentTilesUnfiltered(t) ==
    <<TileCoord(t.X + 1, t.Y, t.Zoom), TileCoord(t.X - 1, t.Y, t.Zoom),
      TileCoord(t.X, t.Y + 1, t.Zoom), TileCoord(t.X, t.Y - 1, t.Zoom)>>

\* Right, left, down, up, each only when in range.
GetAdjacentTiles(t) ==
    LET maxTile == Pow2(t.Zoom) - 1
        right == IF t.X + 1 <= maxTile THEN <<TileCoord(t.X + 1, t.Y, t.Zoom)>> ELSE <<>>
        left  == IF t.X - 1 >= 0 THEN <<TileCoord(t.X - 1, t.Y, t.Zoom)>> ELSE <<>>
        down  == IF t.Y + 1 <= maxTile THEN <<TileCoord(t.X, t.Y + 1, t.Zoom)>> ELSE <<>>
        up    == IF t.Y - 1 >= 0 THEN <<TileCoord(t.X, t.Y - 1, t.Zoom)>> ELSE <<>>
    IN  right \o left \o down \o up

\* Latitudes and longitudes are float64 degrees in the code; the model writes
\* them in ten-thousandths of a degree (52.3676 degrees is 523676).

\* (1 - ln(tan(latRad) + 1/cos(latRad)) / pi) / 2 in hundred-millionths, rounded
\* down, for the latitudes the model uses.
MercatorY(lat) ==
    CASE lat = 900000 -> -555186725
      [] lat = 850000 -> 163791
      [] lat = 523676 -> 32864967
      [] lat = 0 -> 50000000
      [] lat = -850000 -> 99836208

\* floor((q + r / d) * 2^k) for 0 <= r < d, by doubling, without large products.
RECURSIVE Scale(_, _, _, _)
Scale(q, r, d, k) ==
    IF k = 0 THEN q
    ELSE Scale(2 * q + (2 * r) \div d, (2 * r) % d, d, k - 1)

\* At latitude -90 tan(latRad) and 1/cos(latRad) are about -1.6e16 and 1.6e16:
\* their sum is 0 or a few units of the last place either side, so the
\* logarithm is -Inf, NaN or ln 2, and int() of a non-finite float64 is the
\* most negative integer, zero or the most positive one depending on the
\* architecture. poleY says which of these the build produces.
VARIABLE poleY

PoleOutcomes == {"min", "zero", "ln2", "max"}

\* An integer beyond every tile index, standing for the largest int.
Huge == Pow2(30)

\* int(... * n) of line 29 at latitude -90.
SouthPoleY(zoom) ==
    CASE poleY = "min" -> -Huge
      [] poleY = "zero" -> 0
      [] poleY = "ln2" -> Scale(0, 38968219, 100000000, zoom)
      [] poleY = "max" -> Huge

\* LatLonToTile without the clamping of lines 31-44.
LatLonToTileUnclamped(lat, lon, zoom) ==
    LET x == Scale((lon + 1800000) \div 3600000, (lon + 1800000) % 3600000, 3600000, zoom)
        y == IF lat = -900000
               THEN SouthPoleY(zoom)
               ELSE Scale(MercatorY(lat) \div 100000000, MercatorY(lat) % 100000000,
                          100000000, zoom)
    IN  TileCoord(x, y, zoom)

\* LatLonToTile that rounds to the nearest tile index instead of truncating.
LatLonToTileRounded(lat, lon, zoom) ==
    LET n == Pow2(zoom)
        x == (Scale((lon + 1800000) \div 3600000, (lon + 1800000) % 3600000, 3600000,
                    zoom + 1) + 1) \div 2
        y == IF lat = -900000
               THEN SouthPoleY(zoom)
               ELSE (Scale(MercatorY(lat) \div 100000000, MercatorY(lat) % 100000000,
                           100000000, zoom + 1) + 1) \div 2
        maxTile == n - 1
        Clamp(v) == IF v < 0 THEN 0 ELSE IF v > maxTile THEN maxTile ELSE v
    IN  TileCoord(Clamp(x), Clamp(y), zoom)

\* LatLonToTile: the fraction of the map times 2^zoom, truncated, then clamped
\* to 0..2^zoom - 1.
LatLonToTile(lat, lon, zoom) ==
    LET n == Pow2(zoom)
        x == Scale((lon + 1800000) \div 3600000, (lon + 1800000) % 3600000, 3600000, zoom)
        y == IF lat = -900000
               THEN SouthPoleY(zoom)
               ELSE Scale(MercatorY(lat) \div 100000000, MercatorY(lat) % 100000000,
                          100000000, zoom)
        maxTile == n - 1
        Clamp(v) == IF v < 0 THEN 0 ELSE IF v > maxTile THEN maxTile ELSE v
    IN  TileCoord(Clamp(x), Clamp(y), zoom)

\* TileGrid without the range check of the inner loop.
TileGridUnfiltered(center, halfX, halfY) ==
    LET width == 2 * halfX + 1
        cell(k) == TileCoord(center.X - halfX + ((k - 1) % width),
                             center.Y - halfY + ((k - 1) \div width),
                             center.Zoom)
    IN  [k \in 1..(width * (2 * halfY + 1)) |-> cell(k)]

\* TileToLatLon: the top-left corner of a tile. The longitude is x / n * 360 -
\* 180 and the latitude atan(sinh(pi * (1 - 2 y / n))) in degrees; the model
\* keeps them as the column and the row whose edge they are, at the zoom of
\* the tile.
TileToLatLon(t) ==
    [lat |-> [row |-> t.Y, zoom |-> t.Zoom], lon |-> [col |-> t.X, zoom |-> t.Zoom]]

\* Where the float64 value of the y expression of LatLonToTile lands for a
\* latitude that TileToLatLon computed, relative to the whole number it
\* equals in exact arithmetic: the last bits of atan, sinh, tan, cos and log
\* decide, and differ from row to row and between math libraries.
RoundOffs == {"below", "exact", "above"}

\* LatLonToTile applied to a point TileToLatLon returned, with round-off r in
\* the y expression. The x expression, (x / n * 360 - 180 + 180) / 360 * n,
\* is exact in float64, and so is the y expression on the equator (latitude
\* 0: sinh, atan and tan give 0, cos gives 1, log gives 0). int() truncates
\* towards zero, so a value just below 0 becomes 0.
LatLonToTileAtEdge(p, zoom, r) ==
    LET n == Pow2(zoom)
        Exact(k, z) == IF zoom >= z THEN k * Pow2(zoom - z) ELSE k \div Pow2(z - zoom)
        OnEdge(k, z) == zoom >= z \/ k % Pow2(z - zoom) = 0
        x == Exact(p.lon.col, p.lon.zoom)
        equator == 2 * p.lat.row = Pow2(p.lat.zoom)
        y == IF /\ OnEdge(p.lat.row, p.lat.zoom) /\ r = "below" /\ ~equator
                /\ Exact(p.lat.row, p.lat.zoom) > 0
               THEN Exact(p.lat.row, p.lat.zoom) - 1
               ELSE Exact(p.lat.row, p.lat.zoom)
        maxTile == n - 1
        Clamp(v) == IF v < 0 THEN 0 ELSE IF v > maxTile THEN maxTile ELSE v
    IN  TileCoord(Clamp(x), Clamp(y), zoom)

\* The double loop of GetVisibleTiles and GetPrefetchTiles: the tiles at most
\* halfX columns and halfY rows away from the centre that are on the map, row
\* by row (dy outer, dx inner).
TileGrid(center, halfX, halfY) ==
    LET maxTile == Pow2(center.Zoom) - 1
        width == 2 * halfX + 1
        cell(k) == TileCoord(center.X - halfX + ((k - 1) % width),
                             center.Y - halfY + ((k - 1) \div width),
                             center.Zoom)
        onMap(t) == t.X >= 0 /\ t.X <= maxTile /\ t.Y >= 0 /\ t.Y <= maxTile
    IN  SelectSeq([k \in 1..(width * (2 * halfY + 1)) |-> cell(k)], onMap)

\* GetVisibleTiles that rounds the number of tiles per dimension up.
GetVisibleTilesRoundedUp(centerLat, centerLon, zoom, viewportWidth, viewportHeight) ==
    LET tileSize == 256
        tilesX == ((viewportWidth + tileSize - 1) \div tileSize) + 3
        tilesY == ((viewportHeight + tileSize - 1) \div tileSize) + 3
        halfX == tilesX \div 2
        halfY == tilesY \div 2
    IN  TileGrid(LatLonToTile(centerLat, centerLon, zoom), halfX, halfY)

\* GetVisibleTiles: the tiles at most (viewportWidth / 256 + 3) / 2 columns and
\* (viewportHeight / 256 + 3) / 2 rows away from the centre tile, in integer
\* division, that are on the map.
GetVisibleTiles(centerLat, centerLon, zoom, viewportWidth, viewportHeight) ==
    LET tileSize == 256
        tilesX == (viewportWidth \div tileSize) + 3
        tilesY == (viewportHeight \div tileSize) + 3
        halfX == tilesX \div 2
        halfY == tilesY \div 2
    IN  TileGrid(LatLonToTile(centerLat, centerLon, zoom), halfX, halfY)

\* GetPrefetchTiles without the limits 2 and 18 on the adjacent zoom levels.
GetPrefetchTilesAnyZoom(centerLat, centerLon, zoom, viewportWidth, viewportHeight) ==
    LET tileSize == 256
        tilesX == (5 * (viewportWidth \div tileSize + 2)) \div 2
        tilesY == (5 * (viewportHeight \div tileSize + 2)) \div 2
        halfX == tilesX \div 2
        halfY == tilesY \div 2
        level(zoomOffset) ==
            LET adjZoom == zoom + zoomOffset
            IN  IF adjZoom < 0
                  THEN <<>>
                  ELSE IF zoomOffset = 1
                         THEN TileGrid(LatLonToTile(centerLat, centerLon, adjZoom), halfX, halfY)
                         ELSE TileGrid(LatLonToTile(centerLat, centerLon, adjZoom),
                                       halfX \div 2, halfY \div 2)
    IN  TileGrid(LatLonToTile(centerLat, centerLon, zoom), halfX, halfY)
            \o level(-1) \o level(1)

\* GetPrefetchTiles with the reaches of the two adjacent levels exchanged.
GetPrefetchTilesSwappedReach(centerLat, centerLon, zoom, viewportWidth, viewportHeight) ==
    LET tileSize == 256
        tilesX == (5 * (viewportWidth \div tileSize + 2)) \div 2
        tilesY == (5 * (viewportHeight \div tileSize + 2)) \div 2
        halfX == tilesX \div 2
        halfY == tilesY \div 2
        level(zoomOffset) ==
            LET adjZoom == zoom + zoomOffset
            IN  IF adjZoom < MinZoom \/ adjZoom > MaxZoom
                  THEN <<>>
                  ELSE IF zoomOffset = -1
                         THEN TileGrid(LatLonToTile(centerLat, centerLon, adjZoom), halfX, halfY)
                         ELSE TileGrid(LatLonToTile(centerLat, centerLon, adjZoom),
                                       halfX \div 2, halfY \div 2)
    IN  TileGrid(LatLonToTile(centerLat, centerLon, zoom), halfX, halfY)
            \o level(-1) \o level(1)

\* GetPrefetchTiles without the tiles of the current zoom level.
GetPrefetchTilesAdjacentOnly(centerLat, centerLon, zoom, viewportWidth, viewportHeight) ==
    LET tileSize == 256
        tilesX == (5 * (viewportWidth \div tileSize + 2)) \div 2
        tilesY == (5 * (viewportHeight \div tileSize + 2)) \div 2
        halfX == tilesX \div 2
        halfY == tilesY \div 2
        level(zoomOffset) ==
            LET adjZoom == zoom + zoomOffset
            IN  IF adjZoom < MinZoom \/ adjZoom > MaxZoom
                  THEN <<>>
                  ELSE IF zoomOffset = 1
                         THEN TileGrid(LatLonToTile(centerLat, centerLon, adjZoom), halfX, halfY)
                         ELSE TileGrid(LatLonToTile(centerLat, centerLon, adjZoom),
                                       halfX \div 2, halfY \div 2)
    IN  <<>>
            \o level(-1) \o level(1)

\* GetPrefetchTiles that puts the tiles of the adjacent zoom levels first.
GetPrefetchTilesAdjacentFirst(centerLat, centerLon, zoom, viewportWidth, viewportHeight) ==
    LET tileSize == 256
        tilesX == (5 * (viewportWidth \div tileSize + 2)) \div 2
        tilesY == (5 * (viewportHeight \div tileSize + 2)) \div 2
        halfX == tilesX \div 2
        halfY == tilesY \div 2
        level(zoomOffset) ==
            LET adjZoom == zoom + zoomOffset
            IN  IF adjZoom < MinZoom \/ adjZoom > MaxZoom
                  THEN <<>>
                  ELSE IF zoomOffset = 1
                         THEN TileGrid(LatLonToTile(centerLat, centerLon, adjZoom), halfX, halfY)
                         ELSE TileGrid(LatLonToTile(centerLat, centerLon, adjZoom),
                                       halfX \div 2, halfY \div 2)
    IN  level(-1) \o level(1)
            \o TileGrid(LatLonToTile(centerLat, centerLon, zoom), halfX, halfY)

\* GetPrefetchTiles: the tiles of the current zoom level, then those of zoom - 1
\* (half the reach), then those of zoom + 1 (same reach); a level below 2 or
\* above 18 is skipped. int(float64(k) * 2.5) is (5 * k) \div 2.
GetPrefetchTiles(centerLat, centerLon, zoom, viewportWidth, viewportHeight) ==
    LET tileSize == 256
        tilesX == (5 * (viewportWidth \div tileSize + 2)) \div 2
        tilesY == (5 * (viewportHeight \div tileSize + 2)) \div 2
        halfX == tilesX \div 2
        halfY == tilesY \div 2
        level(zoomOffset) ==
            LET adjZoom == zoom + zoomOffset
            IN  IF adjZoom < MinZoom \/ adjZoom > MaxZoom
                  THEN <<>>
                  ELSE IF zoomOffset = 1
                         THEN TileGrid(LatLonToTile(centerLat, centerLon, adjZoom), halfX, halfY)
                         ELSE TileGrid(LatLonToTile(centerLat, centerLon, adjZoom),
                                       halfX \div 2, halfY \div 2)
    IN  TileGrid(LatLonToTile(centerLat, centerLon, zoom), halfX, halfY)
            \o level(-1) \o level(1)

\* The viewports PrefetchArea is called with: the north-west corner of the
\* map, a window smaller than one tile, two zoom levels below the deepest one
\* GetPrefetchTiles adds, so that only the tiles of the current level (three
\* rows of three) are prefetched.
AreaRequests ==
    {[lat |-> 900000, lon |-> -1800000, zoom |-> MaxZoom + 2, width |-> 255, height |-> 255]}

\* The elements of a sequence.
Range(s) == {s[i] : i \in 1..Len(s)}

\* The coordinates callers ask for: a corner tile and its right neighbour.
\* The first caller only ever asks for the corner tile, the others for either.
CornerTile == TileCoord(0, 0, MinZoom)
RequestCoords == {CornerTile, TileCoord(1, 0, MinZoom)}
Requests(p) == IF p = 1 THEN {CornerTile} ELSE RequestCoords

\* Every coordinate the cache can see: the requested ones and their neighbours.
Coords ==
    RequestCoords \cup
    UNION {Range(GetAdjacentTiles(c)) : c \in RequestCoords} \cup
    UNION {Range(GetPrefetchTiles(a.lat, a.lon, a.zoom, a.width, a.height)) : a \in AreaRequests}

(***************************************************************************)
(* Go maps: a function whose DOMAIN is the set of keys present.            *)
(***************************************************************************)
EmptyMap == [k \in {} |-> 0]
MapPut(m, k, v) == [x \in DOMAIN m \cup {k} |-> IF x = k THEN v ELSE m[x]]
MapDelete(m, k) == [x \in DOMAIN m \ {k} |-> m[x]]

(***************************************************************************)
(* Raster cache: internal/tileserver TileCache.                            *)
(***************************************************************************)
\* A Go ([]byte, error) pair: the bytes and whether err is non-nil.
Success(bytes) == [bytes |-> bytes, err |-> FALSE]
Failure == [bytes |-> <<>>, err |-> TRUE]
\* The zero values of the locals of a goroutine that is not in a call.
NoResult == [bytes |-> <<>>, err |-> FALSE]
NoCoord == [X |-> 0, Y |-> 0, Zoom |-> 0]
None == "none"

\* "<cacheDir>/<zoom>_<x>_<y>.png".
tilePath(c) == <<c.Zoom, "_", c.X, "_", c.Y, ".png">>

\* The bytes the origin serves for a tile; tiles are immutable at the origin.
Payload(c) == <<c.Zoom, c.X, c.Y>>

\* Channels made by make(chan struct{}); an identifier is reused once nothing
\* refers to the channel any more.
ChanIds == 1..(NumCallers + MaxWorkers)
NoChan == 0

VARIABLES
    store,       \* the cache directory: file path -> content
    inFlight,    \* tc.inFlight: key -> channel
    mu,          \* tc.inFlightMu: the process holding it, or 0
    chan,        \* channel -> "free", "open", or closed with the owner's outcome
    fetchQueue,  \* tc.fetchQueue, buffered
    pc,          \* process -> position in the code
    coord,       \* process -> argument of GetTile / fetchTile
    ch,          \* process -> local variable ch
    data,        \* process -> local (data, err) pair
    qi,          \* process -> index of the next adjacent tile to offer
    how,         \* process -> how the current call got its result (history)
    seen,        \* caller -> netCount of its tile when it called GetTile on an
                 \* uncached tile nobody was fetching, else -1 (history)
    calls,       \* number of GetTile calls issued so far (history)
    netCount,    \* coordinate -> number of client.Do calls made for it (history)
    netOk,       \* coordinates the origin has served successfully (history)
    faults,      \* number of failed origin requests and disk writes (history)
    closed,      \* tc.fetchQueue has been closed
    wg,          \* tc.wg: the counter of the WaitGroup
    workers,     \* the workers argument NewTileCache was called with (history)
    tilesToFetch,\* caller -> local variable tilesToFetch of PrefetchArea
    isCached,    \* caller -> the value its last IsCached call returned and
                 \* the number of that call among all calls (history)
    queuedAtClose,\* the content of tc.fetchQueue when Close closed it (history)
    areaStart    \* caller -> the queue when its PrefetchArea loop began, kept
                 \* while the loop runs and no worker receives, and whether
                 \* no other goroutine has sent to the queue since (history)

\* The variables of the worker pool's shutdown, PrefetchArea and IsCached.
poolvars == <<closed, wg, workers, tilesToFetch, isCached, queuedAtClose, areaStart>>

rvars == <<store, inFlight, mu, chan, fetchQueue, pc, coord, ch, data, qi, how, seen,
           calls, netCount, netOk, faults, poolvars>>

\* The goroutines of the program: the callers, and the workers that
\* NewTileCache started.
Procs == DOMAIN pc
Workers == Procs \ Callers

VARIABLES
    vtiles,      \* vtc.tiles: key -> *TileData
    vinFlight,   \* vtc.inFlight: key -> channel
    vmu,         \* vtc.inFlightMu: the process holding it, or 0
    vchan,       \* channel -> "free", "open", or closed with the owner's outcome
    vpc,         \* caller -> position in VectorTileCache.GetTile
    vkey,        \* caller -> local variable key
    vch,         \* caller -> local variable ch
    vdata,       \* caller -> local (data, err) pair
    vhow,        \* caller -> how the current call got its result (history)
    vseen,       \* caller -> fetch count of its key at the call, as seen (history)
    vcalls,      \* number of GetTile calls issued so far (history)
    vnetCount,   \* key -> number of fetchAndParse calls made for it (history)
    vnetOk,      \* keys fetched and decoded successfully (history)
    vfaults,     \* number of failed fetchAndParse calls (history)
    hasTile      \* caller -> the key and the value of its last HasTile call

vvars == <<vtiles, vinFlight, vmu, vchan, vpc, vkey, vch, vdata, vhow, vseen,
           vcalls, vnetCount, vnetOk, vfaults, hasTile>>

VARIABLES
    args,        \* the arguments a function of pkg/tiles is called with
    fn,          \* the function of pkg/tiles that has been called, or None
    result       \* the slice it returned (one element for a single TileCoord)

tvars == <<poleY, args, fn, result>>

VARIABLES
    camera,      \* the Camera: its Zoom, its position (Lat, Lon) as the number
                 \* of Pan calls applied to the position it was created at,
                 \* isDragging, and lastDragX / lastDragY as near or far
    cameraPc,    \* "ready", or "clampPosition" when a call is inside the loops
                 \* of clampPosition and cannot leave them
    cameraOp     \* the last method called on the camera and its argument (history)

cvars == <<camera, cameraPc, cameraOp>>

vars == <<rvars, vvars, tvars, cvars>>

\* os.ReadFile(path): the content, or an error when the file does not exist.
ReadFile(path) == IF path \in DOMAIN store THEN Success(store[path]) ELSE Failure

\* No PrefetchArea loop of the caller is running.
NoArea == [queue |-> <<>>, quiet |-> FALSE, alone |-> FALSE]

\* areaStart after a send by p: a send that found room is noted in the
\* history of every other running PrefetchArea loop.
AfterSend(p) ==
    IF Len(fetchQueue) < QueueCap
      THEN [q \in Callers |->
               IF q # p /\ areaStart[q].quiet
                 THEN [areaStart[q] EXCEPT !.alone = FALSE]
                 ELSE areaStart[q]]
      ELSE areaStart

\* What IsCached has returned to a caller: the value, and the number of the
\* call among all calls (0 before the first).
Returned(ok, n) == [ok |-> ok, n |-> n]
NotCalled == Returned(FALSE, 0)

\* NewTileCache, lines 155-176, called with n workers: empty registry and
\* queue, n workers started and counted by the WaitGroup. The cache directory
\* starts without tiles.
NewTileCache(n) ==
    /\ store = EmptyMap
    /\ inFlight = EmptyMap
    /\ mu = 0
    /\ chan = [i \in ChanIds |-> "free"]
    /\ fetchQueue = <<>>
    /\ pc = [p \in Callers \cup Started(n) |-> IF p \in Callers THEN "idle" ELSE "w_recv"]
    /\ coord = [p \in Callers \cup Started(n) |-> NoCoord]
    /\ ch = [p \in Callers \cup Started(n) |-> NoChan]
    /\ data = [p \in Callers \cup Started(n) |-> NoResult]
    /\ qi = [p \in Callers \cup Started(n) |-> 0]
    /\ how = [p \in Callers \cup Started(n) |-> None]
    /\ seen = [p \in Callers \cup Started(n) |-> -1]
    /\ calls = 0
    /\ netCount = [c \in Coords |-> 0]
    /\ netOk = {}
    /\ faults = 0
    /\ closed = FALSE
    /\ wg = n
    /\ workers = n
    /\ tilesToFetch = [p \in Callers |-> <<>>]
    /\ isCached = [p \in Callers |-> NotCalled]
    /\ queuedAtClose = <<>>
    /\ areaStart = [p \in Callers |-> NoArea]

\* The cache of the application (app.go line 82), with NumWorkers workers, and
\* its goroutines.
AppTileCache == NewTileCache(NumWorkers)
AppProcs == Callers \cup Started(NumWorkers)

\* The outcomes of the request to the origin (client.Do, the status check and
\* io.ReadAll) and of the two halves of os.WriteFile (open with O_TRUNC, write).
NetOutcomes == {"ok", "transport", "status", "read"}
DiskOutcomes == {"ok", "fail"}

\* The least channel identifier nothing refers to: make(chan struct{}).
NewChan == CHOOSE i \in ChanIds : chan[i] = "free" /\ \A j \in ChanIds : chan[j] = "free" => i <= j

\* The channels after process p drops its reference to ch[p], given their
\* states c: a channel nobody refers to any more is collected.
Dropped(p, c) ==
    [i \in ChanIds |->
        IF i = ch[p] /\ \A q \in Procs \ {p} : ch[q] # i THEN "free" ELSE c[i]]

\* The positions inside fetchTile, and those of the owner of a registration.
FetchPcs == {"f_read", "f_lock", "f_check", "f_wait", "f_reread",
             "f_net", "f_wopen", "f_wdata", "d_lock", "d_close"}
OwnerPcs == {"f_net", "f_wopen", "f_wdata", "d_lock", "d_close"}

\* No process is inside fetchTile for coordinate c.
Quiet(c) == \A q \in Procs : ~(pc[q] \in FetchPcs /\ coord[q] = c)

\* What a waiter remembers of the fetch it joined (history).
JoinedAs(o) ==
    CASE o = "ok" -> "joined_ok"
      [] o = "neterr" -> "joined_neterr"
      [] o = "diskerr" -> "joined_diskerr"
      [] OTHER -> None

hist == <<calls, netCount, netOk, faults>>

\* fetchTile returns (value, err) to its caller, the channels being c. In
\* GetTile (lines 206-214) an error is returned as it is and a success goes on
\* to queuePrefetch; in worker (lines 180-182) the result is discarded and the
\* loop receives again.
FetchReturn(p, value, c) ==
    /\ chan' = Dropped(p, c)
    /\ ch' = [ch EXCEPT ![p] = NoChan]
    /\ how' = [how EXCEPT ![p] = None]
    /\ seen' = [seen EXCEPT ![p] = -1]
    /\ IF p \in Workers
         THEN /\ pc' = [pc EXCEPT ![p] = "w_recv"]
              /\ data' = [data EXCEPT ![p] = NoResult]
              /\ coord' = [coord EXCEPT ![p] = NoCoord]
              /\ qi' = qi
         ELSE /\ data' = [data EXCEPT ![p] = value]
              /\ coord' = coord
              /\ IF value.err \/ Len(GetAdjacentTiles(coord[p])) = 0
                   THEN /\ pc' = [pc EXCEPT ![p] = "done"]
                        /\ qi' = qi
                   ELSE /\ pc' = [pc EXCEPT ![p] = "g_queue"]
                        /\ qi' = [qi EXCEPT ![p] = 1]

\* GetTile that offers the adjacent tiles for prefetching after a hit as well.
GetTileHintOnHit(p, c) ==
    /\ p \in Callers
    /\ pc[p] \in {"idle", "done"}
    /\ calls < MaxCalls
    /\ calls' = calls + 1
    /\ coord' = [coord EXCEPT ![p] = c]
    /\ IF ~ReadFile(tilePath(c)).err
         THEN /\ pc' = [pc EXCEPT ![p] = "g_queue"]
              /\ qi' = [qi EXCEPT ![p] = 1]
              /\ data' = [data EXCEPT ![p] = ReadFile(tilePath(c))]
              /\ how' = [how EXCEPT ![p] = "hit"]
              /\ seen' = seen
         ELSE /\ pc' = [pc EXCEPT ![p] = "f_read"]
              /\ qi' = qi
              /\ data' = [data EXCEPT ![p] = NoResult]
              /\ how' = [how EXCEPT ![p] = None]
              /\ seen' = [seen EXCEPT ![p] = IF Quiet(c) THEN netCount[c] ELSE -1]
    /\ UNCHANGED <<store, inFlight, mu, chan, fetchQueue, ch, netCount, netOk, faults>>
    /\ UNCHANGED <<poolvars, vvars, tvars, cvars>>

\* GetTile, lines 197-203: the first look at the store. A hit returns the file's
\* content; a miss enters fetchTile.
GetTile(p, c) ==
    /\ p \in Callers
    /\ pc[p] \in {"idle", "done"}
    /\ calls < MaxCalls
    /\ calls' = calls + 1
    /\ coord' = [coord EXCEPT ![p] = c]
    /\ IF ~ReadFile(tilePath(c)).err
         THEN /\ pc' = [pc EXCEPT ![p] = "done"]
              /\ data' = [data EXCEPT ![p] = ReadFile(tilePath(c))]
              /\ how' = [how EXCEPT ![p] = "hit"]
              /\ seen' = seen
         ELSE /\ pc' = [pc EXCEPT ![p] = "f_read"]
              /\ data' = [data EXCEPT ![p] = NoResult]
              /\ how' = [how EXCEPT ![p] = None]
              /\ seen' = [seen EXCEPT ![p] = IF Quiet(c) THEN netCount[c] ELSE -1]
    /\ UNCHANGED <<store, inFlight, mu, chan, fetchQueue, ch, qi, netCount, netOk, faults>>
    /\ UNCHANGED <<poolvars, vvars, tvars, cvars>>

\* worker that reads the head of the queue and leaves it there.
WorkerRecvPeek(p) ==
    /\ p \in Workers
    /\ pc[p] = "w_recv"
    /\ Len(fetchQueue) > 0
    /\ coord' = [coord EXCEPT ![p] = Head(fetchQueue)]
    /\ pc' = [pc EXCEPT ![p] = "f_read"]
    /\ areaStart' = [q \in Callers |-> NoArea]
    /\ UNCHANGED <<store, inFlight, mu, chan, fetchQueue, ch, data, qi, how, seen, hist>>
    /\ UNCHANGED <<closed, wg, workers, tilesToFetch, isCached, queuedAtClose, vvars, tvars, cvars>>

\* worker, line 180: receive the next coordinate from the queue.
WorkerRecv(p) ==
    /\ p \in Workers
    /\ pc[p] = "w_recv"
    /\ Len(fetchQueue) > 0
    /\ coord' = [coord EXCEPT ![p] = Head(fetchQueue)]
    /\ fetchQueue' = Tail(fetchQueue)
    /\ pc' = [pc EXCEPT ![p] = "f_read"]
    /\ areaStart' = [q \in Callers |-> NoArea]
    /\ UNCHANGED <<store, inFlight, mu, chan, ch, data, qi, how, seen, hist>>
    /\ UNCHANGED <<closed, wg, workers, tilesToFetch, isCached, queuedAtClose, vvars, tvars, cvars>>

\* fetchTile without the look at the store of lines 222-224.
FetchCheckCachedSkipped(p) ==
    /\ pc[p] = "f_read"
    /\ pc' = [pc EXCEPT ![p] = "f_lock"]
    /\ UNCHANGED <<chan, ch, data, coord, how, seen, qi>>
    /\ UNCHANGED <<store, inFlight, mu, fetchQueue, hist>>
    /\ UNCHANGED <<poolvars, vvars, tvars, cvars>>

\* fetchTile, lines 219-225: check if already cached.
FetchCheckCached(p) ==
    /\ pc[p] = "f_read"
    /\ IF ~ReadFile(tilePath(coord[p])).err
         THEN FetchReturn(p, ReadFile(tilePath(coord[p])), chan)
         ELSE /\ pc' = [pc EXCEPT ![p] = "f_lock"]
              /\ UNCHANGED <<chan, ch, data, coord, how, seen, qi>>
    /\ UNCHANGED <<store, inFlight, mu, fetchQueue, hist>>
    /\ UNCHANGED <<poolvars, vvars, tvars, cvars>>

\* fetchTile, line 228: tc.inFlightMu.Lock().
FetchLock(p) ==
    /\ pc[p] = "f_lock"
    /\ mu = 0
    /\ mu' = p
    /\ pc' = [pc EXCEPT ![p] = "f_check"]
    /\ UNCHANGED <<store, inFlight, chan, fetchQueue, coord, ch, data, qi, how, seen, hist>>
    /\ UNCHANGED <<poolvars, vvars, tvars, cvars>>

\* FetchRegister without the look at the registry: every caller that misses the
\* store registers itself and fetches.
FetchRegisterNoJoin(p) ==
    /\ pc[p] = "f_check"
    /\ mu = p
    /\ mu' = 0
    /\ ch' = [ch EXCEPT ![p] = NewChan]
    /\ chan' = [chan EXCEPT ![NewChan] = "open"]
    /\ inFlight' = MapPut(inFlight, String(coord[p]), NewChan)
    /\ pc' = [pc EXCEPT ![p] = "f_net"]
    /\ UNCHANGED <<store, fetchQueue, coord, data, qi, how, seen, hist>>
    /\ UNCHANGED <<poolvars, vvars, tvars, cvars>>

\* FetchRegister of an owner that keeps tc.inFlightMu while it fetches.
FetchRegisterHoldingLock(p) ==
    /\ pc[p] = "f_check"
    /\ mu = p
    /\ IF String(coord[p]) \in DOMAIN inFlight
         THEN /\ ch' = [ch EXCEPT ![p] = inFlight[String(coord[p])]]
              /\ pc' = [pc EXCEPT ![p] = "f_wait"]
              /\ mu' = 0
              /\ UNCHANGED <<inFlight, chan>>
         ELSE /\ ch' = [ch EXCEPT ![p] = NewChan]
              /\ chan' = [chan EXCEPT ![NewChan] = "open"]
              /\ inFlight' = MapPut(inFlight, String(coord[p]), NewChan)
              /\ pc' = [pc EXCEPT ![p] = "f_net"]
              /\ UNCHANGED mu
    /\ UNCHANGED <<store, fetchQueue, coord, data, qi, how, seen, hist>>
    /\ UNCHANGED <<poolvars, vvars, tvars, cvars>>

\* fetchTile, lines 229-238: join the fetch in progress, or register as owner.
FetchRegister(p) ==
    /\ pc[p] = "f_check"
    /\ mu = p
    /\ mu' = 0
    /\ IF String(coord[p]) \in DOMAIN inFlight
         THEN /\ ch' = [ch EXCEPT ![p] = inFlight[String(coord[p])]]
              /\ pc' = [pc EXCEPT ![p] = "f_wait"]
              /\ UNCHANGED <<inFlight, chan>>
         ELSE /\ ch' = [ch EXCEPT ![p] = NewChan]
              /\ chan' = [chan EXCEPT ![NewChan] = "open"]
              /\ inFlight' = MapPut(inFlight, String(coord[p]), NewChan)
              /\ pc' = [pc EXCEPT ![p] = "f_net"]
    /\ UNCHANGED <<store, fetchQueue, coord, data, qi, how, seen, hist>>
    /\ UNCHANGED <<poolvars, vvars, tvars, cvars>>

\* fetchTile, line 231: <-ch, enabled once the channel is closed.
FetchWait(p) ==
    /\ pc[p] = "f_wait"
    /\ chan[ch[p]] \notin {"free", "open"}
    /\ pc' = [pc EXCEPT ![p] = "f_reread"]
    /\ how' = [how EXCEPT ![p] = JoinedAs(chan[ch[p]])]
    /\ UNCHANGED <<store, inFlight, mu, chan, fetchQueue, coord, ch, data, qi, seen, hist>>
    /\ UNCHANGED <<poolvars, vvars, tvars, cvars>>

\* FetchReRead that hands back whatever it has with a nil error, as the vector
\* cache's waiter does.
FetchReReadNilError(p) ==
    /\ pc[p] = "f_reread"
    /\ FetchReturn(p, Success(ReadFile(tilePath(coord[p])).bytes), chan)
    /\ UNCHANGED <<store, inFlight, mu, fetchQueue, hist>>
    /\ UNCHANGED <<poolvars, vvars, tvars, cvars>>

\* fetchTile, line 232: return os.ReadFile(path).
FetchReRead(p) ==
    /\ pc[p] = "f_reread"
    /\ FetchReturn(p, ReadFile(tilePath(coord[p])), chan)
    /\ UNCHANGED <<store, inFlight, mu, fetchQueue, hist>>
    /\ UNCHANGED <<poolvars, vvars, tvars, cvars>>

\* fetchTile, lines 248-268: the request to the origin.
FetchOrigin(p, o) ==
    /\ pc[p] = "f_net"
    /\ netCount' = [netCount EXCEPT ![coord[p]] = @ + 1]
    /\ IF o = "ok"
         THEN /\ data' = [data EXCEPT ![p] = Success(Payload(coord[p]))]
              /\ pc' = [pc EXCEPT ![p] = "f_wopen"]
              /\ how' = [how EXCEPT ![p] = "ok"]
              /\ netOk' = netOk \cup {coord[p]}
              /\ UNCHANGED faults
         ELSE /\ data' = [data EXCEPT ![p] = Failure]
              /\ pc' = [pc EXCEPT ![p] = "d_lock"]
              /\ how' = [how EXCEPT ![p] = "neterr"]
              /\ faults < MaxFaults
              /\ faults' = faults + 1
              /\ UNCHANGED netOk
    /\ UNCHANGED <<store, inFlight, mu, chan, fetchQueue, coord, ch, qi, seen, calls>>
    /\ UNCHANGED <<poolvars, vvars, tvars, cvars>>

\* fetchTile, line 271, first half of os.WriteFile: open the file with
\* O_CREATE|O_TRUNC. The file exists and is empty afterwards.
WriteFileOpen(p, o) ==
    /\ pc[p] = "f_wopen"
    /\ IF o = "ok"
         THEN /\ store' = MapPut(store, tilePath(coord[p]), <<>>)
              /\ pc' = [pc EXCEPT ![p] = "f_wdata"]
              /\ UNCHANGED <<how, faults>>
         ELSE /\ pc' = [pc EXCEPT ![p] = "d_lock"]
              /\ how' = [how EXCEPT ![p] = "diskerr"]
              /\ faults < MaxFaults
              /\ faults' = faults + 1
              /\ UNCHANGED store
    /\ UNCHANGED <<inFlight, mu, chan, fetchQueue, coord, ch, data, qi, seen, calls, netCount, netOk>>
    /\ UNCHANGED <<poolvars, vvars, tvars, cvars>>

\* fetchTile, line 271, second half of os.WriteFile: write the bytes. A failed
\* write is logged (lines 272-274) and leaves the file as it is.
WriteFileData(p, o) ==
    /\ pc[p] = "f_wdata"
    /\ pc' = [pc EXCEPT ![p] = "d_lock"]
    /\ IF o = "ok"
         THEN /\ store' = MapPut(store, tilePath(coord[p]), data[p].bytes)
              /\ UNCHANGED <<how, faults>>
         ELSE /\ how' = [how EXCEPT ![p] = "diskerr"]
              /\ faults < MaxFaults
              /\ faults' = faults + 1
              /\ UNCHANGED store
    /\ UNCHANGED <<inFlight, mu, chan, fetchQueue, coord, ch, data, qi, seen, calls, netCount, netOk>>
    /\ UNCHANGED <<poolvars, vvars, tvars, cvars>>

\* The deferred function, line 241: tc.inFlightMu.Lock().
DeferLock(p) ==
    /\ pc[p] = "d_lock"
    /\ mu = 0
    /\ mu' = p
    /\ pc' = [pc EXCEPT ![p] = "d_close"]
    /\ UNCHANGED <<store, inFlight, chan, fetchQueue, coord, ch, data, qi, how, seen, hist>>
    /\ UNCHANGED <<poolvars, vvars, tvars, cvars>>

\* DeferClose as it would be without the defer: the clean-up runs on the
\* success path only, an error returns with the entry registered and the
\* channel open.
DeferCloseSuccessOnly(p) ==
    /\ pc[p] = "d_close"
    /\ mu = p
    /\ mu' = 0
    /\ inFlight' = IF data[p].err THEN inFlight ELSE MapDelete(inFlight, String(coord[p]))
    /\ FetchReturn(p, data[p], IF data[p].err THEN chan ELSE [chan EXCEPT ![ch[p]] = how[p]])
    /\ UNCHANGED <<store, fetchQueue, hist>>
    /\ UNCHANGED <<poolvars, vvars, tvars, cvars>>

\* DeferClose without close(ch): the entry is deleted, the signal never fires.
DeferCloseNoSignal(p) ==
    /\ pc[p] = "d_close"
    /\ mu = p
    /\ mu' = 0
    /\ inFlight' = MapDelete(inFlight, String(coord[p]))
    /\ FetchReturn(p, data[p], chan)
    /\ UNCHANGED <<store, fetchQueue, hist>>
    /\ UNCHANGED <<poolvars, vvars, tvars, cvars>>

\* DeferClose without delete(tc.inFlight, key): the signal fires, the entry
\* stays in the registry.
DeferCloseKeepEntry(p) ==
    /\ pc[p] = "d_close"
    /\ mu = p
    /\ mu' = 0
    /\ inFlight' = inFlight
    /\ FetchReturn(p, data[p], [chan EXCEPT ![ch[p]] = how[p]])
    /\ UNCHANGED <<store, fetchQueue, hist>>
    /\ UNCHANGED <<poolvars, vvars, tvars, cvars>>

\* DeferClose that, after a failed fetch, resets the whole registry instead
\* of deleting its own entry.
DeferCloseResetRegistry(p) ==
    /\ pc[p] = "d_close"
    /\ mu = p
    /\ mu' = 0
    /\ inFlight' = IF data[p].err THEN EmptyMap ELSE MapDelete(inFlight, String(coord[p]))
    /\ FetchReturn(p, data[p], [chan EXCEPT ![ch[p]] = how[p]])
    /\ UNCHANGED <<store, fetchQueue, hist>>
    /\ UNCHANGED <<poolvars, vvars, tvars, cvars>>

\* The deferred function, lines 242-244: delete the entry, close the channel,
\* unlock; fetchTile then returns what the owner fetched.
DeferClose(p) ==
    /\ pc[p] = "d_close"
    /\ mu = p
    /\ mu' = 0
    /\ inFlight' = MapDelete(inFlight, String(coord[p]))
    /\ FetchReturn(p, data[p], [chan EXCEPT ![ch[p]] = how[p]])
    /\ UNCHANGED <<store, fetchQueue, hist>>
    /\ UNCHANGED <<poolvars, vvars, tvars, cvars>>

\* Goroutine p panics: an unrecovered panic ends the program, and with it every
\* other goroutine where it stands.
Panic(p) == [q \in Procs |-> IF q = p THEN "panic" ELSE "killed"]

\* TrySend that makes room by dropping the oldest coordinate of a full queue.
TrySendDropOldest(queue, c) ==
    IF Len(queue) < QueueCap THEN Append(queue, c) ELSE Append(Tail(queue), c)

\* select { case tc.fetchQueue <- c: default: }, the channel being open: the
\* coordinate is appended when the buffer has room and dropped when it is full.
TrySend(queue, c) == IF Len(queue) < QueueCap THEN Append(queue, c) ELSE queue

\* QueuePrefetch with a plain send, tc.fetchQueue <- adj: the caller waits until
\* the buffer has room.
QueuePrefetchBlocking(p) ==
    /\ pc[p] = "g_queue"
    /\ closed \/ Len(fetchQueue) < QueueCap
    /\ LET adjacent == GetAdjacentTiles(coord[p])
       IN  IF closed
             THEN /\ pc' = Panic(p)
                  /\ UNCHANGED <<fetchQueue, qi, areaStart>>
             ELSE /\ fetchQueue' = Append(fetchQueue, adjacent[qi[p]])
                  /\ areaStart' = AfterSend(p)
                  /\ IF qi[p] < Len(adjacent)
                       THEN /\ qi' = [qi EXCEPT ![p] = @ + 1]
                            /\ pc' = pc
                       ELSE /\ qi' = [qi EXCEPT ![p] = 0]
                            /\ pc' = [pc EXCEPT ![p] = "done"]
    /\ UNCHANGED <<store, inFlight, mu, chan, coord, ch, data, how, seen, hist>>
    /\ UNCHANGED <<closed, wg, workers, tilesToFetch, isCached, queuedAtClose, vvars, tvars, cvars>>

\* queuePrefetch, lines 282-289: one iteration of the loop, a non-blocking send.
\* A send on a closed channel panics, in a select statement too.
QueuePrefetch(p) ==
    /\ pc[p] = "g_queue"
    /\ LET adjacent == GetAdjacentTiles(coord[p])
       IN  IF closed
             THEN /\ pc' = Panic(p)
                  /\ UNCHANGED <<fetchQueue, qi, areaStart>>
             ELSE /\ fetchQueue' = TrySend(fetchQueue, adjacent[qi[p]])
                  /\ areaStart' = AfterSend(p)
                  /\ IF qi[p] < Len(adjacent)
                       THEN /\ qi' = [qi EXCEPT ![p] = @ + 1]
                            /\ pc' = pc
                       ELSE /\ qi' = [qi EXCEPT ![p] = 0]
                            /\ pc' = [pc EXCEPT ![p] = "done"]
    /\ UNCHANGED <<store, inFlight, mu, chan, coord, ch, data, how, seen, hist>>
    /\ UNCHANGED <<closed, wg, workers, tilesToFetch, isCached, queuedAtClose, vvars, tvars, cvars>>

\* worker whose loop ends as soon as the queue is closed, whatever it holds.
WorkerExitOnClose(p) ==
    /\ p \in Workers
    /\ pc[p] = "w_recv"
    /\ closed
    /\ pc' = [pc EXCEPT ![p] = "w_exit"]
    /\ wg' = wg - 1
    /\ UNCHANGED <<store, inFlight, mu, chan, fetchQueue, coord, ch, data, qi, how, seen, hist>>
    /\ UNCHANGED <<closed, workers, tilesToFetch, isCached, queuedAtClose, areaStart, vvars, tvars, cvars>>

\* worker, lines 179-182: the range loop ends once the queue is closed and
\* empty, and the deferred tc.wg.Done() runs.
WorkerExit(p) ==
    /\ p \in Workers
    /\ pc[p] = "w_recv"
    /\ closed
    /\ Len(fetchQueue) = 0
    /\ pc' = [pc EXCEPT ![p] = "w_exit"]
    /\ wg' = wg - 1
    /\ UNCHANGED <<store, inFlight, mu, chan, fetchQueue, coord, ch, data, qi, how, seen, hist>>
    /\ UNCHANGED <<closed, workers, tilesToFetch, isCached, queuedAtClose, areaStart, vvars, tvars, cvars>>

\* Close, line 187: close(tc.fetchQueue). Closing a closed channel panics.
Close(p) ==
    /\ p \in Callers
    /\ pc[p] \in {"idle", "done"}
    /\ calls < MaxCalls
    /\ calls' = calls + 1
    /\ IF closed
         THEN /\ pc' = Panic(p)
              /\ UNCHANGED <<closed, queuedAtClose>>
         ELSE /\ pc' = [pc EXCEPT ![p] = "c_wait"]
              /\ closed' = TRUE
              /\ queuedAtClose' = fetchQueue
    /\ how' = [how EXCEPT ![p] = None]
    /\ UNCHANGED <<store, inFlight, mu, chan, fetchQueue, coord, ch, data, qi, seen>>
    /\ UNCHANGED <<netCount, netOk, faults, wg, workers, tilesToFetch, isCached, areaStart, vvars, tvars, cvars>>

\* Close, line 188: tc.wg.Wait() returns once every worker has called Done.
CloseWait(p) ==
    /\ pc[p] = "c_wait"
    /\ wg = 0
    /\ pc' = [pc EXCEPT ![p] = "done"]
    /\ UNCHANGED <<store, inFlight, mu, chan, fetchQueue, coord, ch, data, qi, how, seen, hist>>
    /\ UNCHANGED <<poolvars, vvars, tvars, cvars>>

\* PrefetchArea, line 294: compute the tiles to fetch.
PrefetchArea(p, centerLat, centerLon, zoom, viewportWidth, viewportHeight) ==
    /\ p \in Callers
    /\ pc[p] \in {"idle", "done"}
    /\ calls < MaxCalls
    /\ calls' = calls + 1
    /\ LET tiles == GetPrefetchTiles(centerLat, centerLon, zoom, viewportWidth, viewportHeight)
       IN  IF Len(tiles) = 0
             THEN /\ pc' = [pc EXCEPT ![p] = "done"]
                  /\ UNCHANGED <<tilesToFetch, qi, areaStart>>
             ELSE /\ pc' = [pc EXCEPT ![p] = "a_send"]
                  /\ tilesToFetch' = [tilesToFetch EXCEPT ![p] = tiles]
                  /\ qi' = [qi EXCEPT ![p] = 1]
                  /\ areaStart' = [areaStart EXCEPT
                                      ![p] = [queue |-> fetchQueue, quiet |-> TRUE,
                                             alone |-> TRUE]]
    /\ coord' = [coord EXCEPT ![p] = NoCoord]
    /\ data' = [data EXCEPT ![p] = NoResult]
    /\ how' = [how EXCEPT ![p] = None]
    /\ UNCHANGED <<store, inFlight, mu, chan, fetchQueue, ch, seen>>
    /\ UNCHANGED <<netCount, netOk, faults, closed, wg, workers, isCached, queuedAtClose, vvars, tvars, cvars>>

\* PrefetchSend going through tilesToFetch from its last element to its first.
PrefetchSendBackwards(p) ==
    /\ pc[p] = "a_send"
    /\ IF closed
         THEN /\ pc' = Panic(p)
              /\ UNCHANGED <<fetchQueue, qi, tilesToFetch, areaStart>>
         ELSE /\ fetchQueue' = TrySend(fetchQueue,
                                      tilesToFetch[p][Len(tilesToFetch[p]) + 1 - qi[p]])
              /\ IF qi[p] < Len(tilesToFetch[p])
                   THEN /\ qi' = [qi EXCEPT ![p] = @ + 1]
                        /\ areaStart' = AfterSend(p)
                        /\ UNCHANGED <<pc, tilesToFetch>>
                   ELSE /\ qi' = [qi EXCEPT ![p] = 0]
                        /\ pc' = [pc EXCEPT ![p] = "done"]
                        /\ tilesToFetch' = [tilesToFetch EXCEPT ![p] = <<>>]
                        /\ areaStart' = [AfterSend(p) EXCEPT ![p] = NoArea]
    /\ UNCHANGED <<store, inFlight, mu, chan, coord, ch, data, how, seen, hist>>
    /\ UNCHANGED <<closed, wg, workers, isCached, queuedAtClose, vvars, tvars, cvars>>

\* PrefetchArea, lines 295-301: one iteration of the loop, a non-blocking send.
\* A send on a closed channel panics, in a select statement too.
PrefetchSend(p) ==
    /\ pc[p] = "a_send"
    /\ IF closed
         THEN /\ pc' = Panic(p)
              /\ UNCHANGED <<fetchQueue, qi, tilesToFetch, areaStart>>
         ELSE /\ fetchQueue' = TrySend(fetchQueue, tilesToFetch[p][qi[p]])
              /\ IF qi[p] < Len(tilesToFetch[p])
                   THEN /\ qi' = [qi EXCEPT ![p] = @ + 1]
                        /\ areaStart' = AfterSend(p)
                        /\ UNCHANGED <<pc, tilesToFetch>>
                   ELSE /\ qi' = [qi EXCEPT ![p] = 0]
                        /\ pc' = [pc EXCEPT ![p] = "done"]
                        /\ tilesToFetch' = [tilesToFetch EXCEPT ![p] = <<>>]
                        /\ areaStart' = [AfterSend(p) EXCEPT ![p] = NoArea]
    /\ UNCHANGED <<store, inFlight, mu, chan, coord, ch, data, how, seen, hist>>
    /\ UNCHANGED <<closed, wg, workers, isCached, queuedAtClose, vvars, tvars, cvars>>

\* IsCached that also counts a tile whose fetch is in progress.
IsCachedOrInFlight(p, c) ==
    /\ p \in Callers
    /\ pc[p] \in {"idle", "done"}
    /\ calls < MaxCalls
    /\ calls' = calls + 1
    /\ pc' = [pc EXCEPT ![p] = "done"]
    /\ coord' = [coord EXCEPT ![p] = c]
    /\ data' = [data EXCEPT ![p] = NoResult]
    /\ isCached' = [isCached EXCEPT ![p] =
                       Returned(tilePath(c) \in DOMAIN store \/ String(c) \in DOMAIN inFlight,
                                calls + 1)]
    /\ how' = [how EXCEPT ![p] = None]
    /\ UNCHANGED <<store, inFlight, mu, chan, fetchQueue, ch, qi, seen>>
    /\ UNCHANGED <<netCount, netOk, faults, closed, wg, workers, tilesToFetch, queuedAtClose, areaStart, vvars, tvars, cvars>>

\* os.Stat(path) returns no error: the directory has a file of that name.
Stat(path) == path \in DOMAIN store

\* IsCached, lines 305-309: os.Stat(path) succeeds.
IsCached(p, c) ==
    /\ p \in Callers
    /\ pc[p] \in {"idle", "done"}
    /\ calls < MaxCalls
    /\ calls' = calls + 1
    /\ pc' = [pc EXCEPT ![p] = "done"]
    /\ coord' = [coord EXCEPT ![p] = c]
    /\ data' = [data EXCEPT ![p] = NoResult]
    /\ isCached' = [isCached EXCEPT ![p] = Returned(Stat(tilePath(c)), calls + 1)]
    /\ how' = [how EXCEPT ![p] = None]
    /\ UNCHANGED <<store, inFlight, mu, chan, fetchQueue, ch, qi, seen>>
    /\ UNCHANGED <<netCount, netOk, faults, closed, wg, workers, tilesToFetch, queuedAtClose, areaStart, vvars, tvars, cvars>>

\* A goroutine has panicked.
Panicked == \E p \in Procs : pc[p] = "panic"

Next ==
    \/ \E p \in Callers : \E c \in Requests(p) : GetTile(p, c)
    \/ \E p \in Workers : WorkerRecv(p)
    \/ \E p \in Procs : FetchCheckCached(p)
    \/ \E p \in Procs : FetchLock(p)
    \/ \E p \in Procs : FetchRegister(p)
    \/ \E p \in Procs : FetchWait(p)
    \/ \E p \in Procs : FetchReRead(p)
    \/ \E p \in Procs, o \in NetOutcomes : FetchOrigin(p, o)
    \/ \E p \in Procs, o \in DiskOutcomes : WriteFileOpen(p, o)
    \/ \E p \in Procs, o \in DiskOutcomes : WriteFileData(p, o)
    \/ \E p \in Procs : DeferLock(p)
    \/ \E p \in Procs : DeferClose(p)
    \/ \E p \in Callers : QueuePrefetch(p)


(***************************************************************************)
(* Vector cache: internal/vectortile VectorTileCache.                      *)
(***************************************************************************)
\* tileKey: "z/x/y", the three numbers in that order.
tileKey(z, x, y) == <<z, x, y>>

\* The keys the callers ask for.
VectorRequests == {<<MinZoom, 0, 0>>, <<MinZoom, 1, 0>>}

\* A *TileData: the record fetchAndParse allocates on its n-th call for the
\* key, and the nil pointer.
TileData(key, n) == [key |-> key, fetch |-> n]
Nil == [key |-> <<>>, fetch |-> 0]

\* A Go (*TileData, error) pair.
VSuccess(d) == [data |-> d, err |-> FALSE]
VFailure == [data |-> Nil, err |-> TRUE]
VNoResult == [data |-> Nil, err |-> FALSE]
NoKey == <<>>

\* vtc.tiles[key]: the nil pointer when the key is absent.
TilesLookup(key) == IF key \in DOMAIN vtiles THEN vtiles[key] ELSE Nil

\* HasTile, lines 127-133.
HasTile(z, x, y) == tileKey(z, x, y) \in DOMAIN vtiles

\* What a caller holds before its first HasTile call.
NoAnswer == [key |-> <<>>, ok |-> FALSE]

\* The outcomes of fetchAndParse, lines 136-183.
ParseOutcomes == {"ok", "transport", "status", "gzip", "read", "parse"}

\* NewVectorTileCache, lines 65-71.
NewVectorTileCache ==
    /\ vtiles = EmptyMap
    /\ vinFlight = EmptyMap
    /\ vmu = 0
    /\ vchan = [i \in ChanIds |-> "free"]
    /\ vpc = [p \in Callers |-> "idle"]
    /\ vkey = [p \in Callers |-> NoKey]
    /\ vch = [p \in Callers |-> NoChan]
    /\ vdata = [p \in Callers |-> VNoResult]
    /\ vhow = [p \in Callers |-> None]
    /\ vseen = [p \in Callers |-> -1]
    /\ vcalls = 0
    /\ vnetCount = [k \in VectorRequests |-> 0]
    /\ vnetOk = {}
    /\ vfaults = 0
    /\ hasTile = [p \in Callers |-> NoAnswer]

\* The inputs the functions of pkg/tiles are called with: the poles, the
\* limits of the projection, the equator and Amsterdam; the date line both
\* ways, Greenwich and Amsterdam; zoom levels inside and outside 2..18;
\* viewports from empty to 1280 x 720.
Lats == {900000, 850000, 523676, 0, -850000, -900000}
Lons == {-1800000, 0, 49041, 1800000}
Zooms == {0, 1, MinZoom, 3, 12, MaxZoom, MaxZoom + 1}
Widths == {0, 255, 1280}
Heights == {0, 255, 720}
TileInputs == [lat : Lats, lon : Lons, zoom : Zooms, width : Widths, height : Heights]
NoArgs == [lat |-> 0, lon |-> 0, zoom |-> 0, width |-> 0, height |-> 0]

\* No function of pkg/tiles has been called with explicit arguments.
TilesIdle ==
    /\ poleY = None
    /\ args = NoArgs
    /\ fn = None
    /\ result = <<>>

\* A call of a function of pkg/tiles is about to be made with some arguments,
\* on some build.
TilesCall ==
    /\ args \in TileInputs
    /\ poleY \in (IF args.lat = -900000 THEN PoleOutcomes ELSE {None})
    /\ fn = None
    /\ result = <<>>

(***************************************************************************)
(* Camera: internal/camera Camera, its zoom, pan and drag methods.          *)
(***************************************************************************)
\* A Go int given to a method: a number near the least int, near zero or near
\* the greatest int, "min" + off, off, or "max" + off.
Int64(base, off) == [base |-> base, off |-> off]
Small(n) == Int64("zero", n)

\* a + b in Go for a small a: the sum wraps around at the ends of int.
Add64(a, b) ==
    LET off == a + b.off
    IN  CASE b.base = "zero" -> Int64("zero", off)
          [] b.base = "max" -> IF off > 0 THEN Int64("min", off - 1) ELSE Int64("max", off)
          [] b.base = "min" -> IF off < 0 THEN Int64("max", off + 1) ELSE Int64("min", off)

\* a < n and a > n for a small n.
Less64(a, n) == a.base = "min" \/ (a.base = "zero" /\ a.off < n)
Greater64(a, n) == a.base = "max" \/ (a.base = "zero" /\ a.off > n)

\* The zoom ZoomTo and ZoomAtPoint settle on, lines 103-108 and 118-123.
ClampZoom(z) ==
    IF Less64(z, MinZoom) THEN MinZoom
    ELSE IF Greater64(z, MaxZoom) THEN MaxZoom
    ELSE z.off

\* The arguments the methods are called with.
ZoomArgs ==
    {Int64("min", 0), Int64("min", 1), Int64("max", -1), Int64("max", 0)} \cup
    {Small(n) : n \in {-17, -16, -1, 0, 1, MinZoom, 3, 16, 17, MaxZoom, MaxZoom + 1}}

\* The screen coordinates and pixel distances the methods are called with:
\* near, within a few screens of the viewport, and far, a finite number so
\* large (1e300) that a longitude moved by it is not changed by adding or
\* subtracting 360.
Pixels == {"near", "far"}

\* NewCamera, lines 44-56.
NewCamera(zoom) ==
    /\ camera = [Zoom |-> zoom, Pans |-> 0, isDragging |-> FALSE, lastDrag |-> "near"]
    /\ cameraPc = "ready"
    /\ cameraOp = [name |-> None, arg |-> Small(0), zoom |-> zoom, pans |-> 0]

\* The method called, its argument, and the camera it was called on (history).
Called(name, arg) ==
    [name |-> name, arg |-> arg, zoom |-> camera.Zoom, pans |-> camera.Pans]

\* Pan, lines 65-84, applied to camera c by a distance d: the position moves
\* and clampPosition (lines 221-237) brings the longitude back into -180..180
\* by steps of 360, which never ends when the distance is far.
Panned(c) == [c EXCEPT !.Pans = @ + 1]
ClampPosition(d) == IF d = "far" THEN "clampPosition" ELSE "ready"

\* Pan, lines 65-84, called from the keyboard handler.
Pan(deltaX) ==
    /\ cameraPc = "ready"
    /\ camera.Pans < MaxPans
    /\ camera' = Panned(camera)
    /\ cameraPc' = ClampPosition(deltaX)
    /\ cameraOp' = Called("Pan", Small(0))
    /\ UNCHANGED <<rvars, vvars, tvars>>

\* StartDrag, lines 190-194.
StartDrag(x) ==
    /\ cameraPc = "ready"
    /\ camera' = [camera EXCEPT !.isDragging = TRUE, !.lastDrag = x]
    /\ cameraOp' = Called("StartDrag", Small(0))
    /\ UNCHANGED <<cameraPc, rvars, vvars, tvars>>

\* Drag, lines 197-209: nothing when no drag is in progress; otherwise Pan by
\* the distance from the last point, which is then replaced.
Drag(x) ==
    /\ cameraPc = "ready"
    /\ IF ~camera.isDragging
         THEN UNCHANGED <<camera, cameraPc>>
         ELSE /\ camera.Pans < MaxPans
              /\ LET delta == IF x = camera.lastDrag THEN "near" ELSE "far"
                 IN  /\ cameraPc' = ClampPosition(delta)
                     /\ camera' = IF delta = "far"
                                    THEN Panned(camera)
                                    ELSE [Panned(camera) EXCEPT !.lastDrag = x]
    /\ cameraOp' = Called("Drag", Small(0))
    /\ UNCHANGED <<rvars, vvars, tvars>>

\* EndDrag, lines 212-214.
EndDrag ==
    /\ cameraPc = "ready"
    /\ camera' = [camera EXCEPT !.isDragging = FALSE]
    /\ cameraOp' = Called("EndDrag", Small(0))
    /\ UNCHANGED <<cameraPc, rvars, vvars, tvars>>

\* ZoomIn without the comparison with MaxZoom.
ZoomInUnchecked ==
    /\ cameraPc = "ready"
    /\ camera' = [camera EXCEPT !.Zoom = @ + 1]
    /\ cameraOp' = Called("ZoomIn", Small(0))
    /\ UNCHANGED <<cameraPc, rvars, vvars, tvars>>

\* ZoomIn, lines 86-90.
ZoomIn ==
    /\ cameraPc = "ready"
    /\ camera' = IF camera.Zoom < MaxZoom THEN [camera EXCEPT !.Zoom = @ + 1] ELSE camera
    /\ cameraOp' = Called("ZoomIn", Small(0))
    /\ UNCHANGED <<cameraPc, rvars, vvars, tvars>>

\* ZoomOut, lines 93-97.
ZoomOut ==
    /\ cameraPc = "ready"
    /\ camera' = IF camera.Zoom > MinZoom THEN [camera EXCEPT !.Zoom = @ - 1] ELSE camera
    /\ cameraOp' = Called("ZoomOut", Small(0))
    /\ UNCHANGED <<cameraPc, rvars, vvars, tvars>>

\* ZoomTo, lines 100-108.
ZoomTo(zoom) ==
    /\ cameraPc = "ready"
    /\ camera' = [camera EXCEPT !.Zoom = ClampZoom(zoom)]
    /\ cameraOp' = Called("ZoomTo", zoom)
    /\ UNCHANGED <<cameraPc, rvars, vvars, tvars>>

\* ZoomAtPoint, lines 111-139: nothing changes when the clamped zoom is the
\* current one; otherwise the zoom is set and Pan moves the camera by the
\* distance the point under the cursor has moved on the screen, which is far
\* when the cursor is.
ZoomAtPoint(delta, screenX) ==
    /\ cameraPc = "ready"
    /\ LET newZoom == ClampZoom(Add64(camera.Zoom, delta))
       IN  IF newZoom = camera.Zoom
             THEN UNCHANGED <<camera, cameraPc>>
             ELSE /\ camera.Pans < MaxPans
                  /\ camera' = Panned([camera EXCEPT !.Zoom = newZoom])
                  /\ cameraPc' = ClampPosition(screenX)
    /\ cameraOp' = Called("ZoomAtPoint", delta)
    /\ UNCHANGED <<rvars, vvars, tvars>>

CameraNext ==
    \/ ZoomIn
    \/ ZoomOut
    \/ \E z \in ZoomArgs : ZoomTo(z)
    \/ \E d \in ZoomArgs : \E x \in Pixels : ZoomAtPoint(d, x)
    \/ \E d \in Pixels : Pan(d)
    \/ \E x \in Pixels : StartDrag(x)
    \/ \E x \in Pixels : Drag(x)
    \/ EndDrag

\* A camera created with any zoom within 2..18, and the calls of its methods.
CameraInit ==
    /\ AppTileCache /\ NewVectorTileCache /\ TilesIdle
    /\ \E zoom \in MinZoom..MaxZoom : NewCamera(zoom)

CameraSpec == CameraInit /\ [][CameraNext]_vars

\* app.New, line 88: the camera of the application, created at zoom 12.
AppCamera == NewCamera(DefaultZoom)

Init == AppTileCache /\ NewVectorTileCache /\ TilesIdle /\ AppCamera

TileInit == AppTileCache /\ NewVectorTileCache /\ TilesCall /\ AppCamera

\* tiles.LatLonToTile(lat, lon, zoom).
ApplyLatLonToTile ==
    /\ fn = None
    /\ fn' = "LatLonToTile"
    /\ result' = <<LatLonToTile(args.lat, args.lon, args.zoom)>>
    /\ UNCHANGED <<poleY, args, rvars, vvars, cvars>>

\* tiles.GetAdjacentTiles(coord), for the tile under the point.
ApplyGetAdjacentTiles ==
    /\ fn = None
    /\ fn' = "GetAdjacentTiles"
    /\ result' = GetAdjacentTiles(LatLonToTile(args.lat, args.lon, args.zoom))
    /\ UNCHANGED <<poleY, args, rvars, vvars, cvars>>

\* tiles.GetVisibleTiles(centerLat, centerLon, zoom, viewportWidth, viewportHeight).
ApplyGetVisibleTiles ==
    /\ fn = None
    /\ fn' = "GetVisibleTiles"
    /\ result' = GetVisibleTiles(args.lat, args.lon, args.zoom, args.width, args.height)
    /\ UNCHANGED <<poleY, args, rvars, vvars, cvars>>

\* tiles.GetPrefetchTiles(centerLat, centerLon, zoom, viewportWidth, viewportHeight).
ApplyGetPrefetchTiles ==
    /\ fn = None
    /\ fn' = "GetPrefetchTiles"
    /\ result' = GetPrefetchTiles(args.lat, args.lon, args.zoom, args.width, args.height)
    /\ UNCHANGED <<poleY, args, rvars, vvars, cvars>>

\* tiles.LatLonToTile(tiles.TileToLatLon(tiles.LatLonToTile(lat, lon, zoom)), zoom).
ApplyRoundTrip ==
    /\ fn = None
    /\ fn' = "RoundTrip"
    /\ \E r \in RoundOffs :
          result' = <<LatLonToTileAtEdge(
                        TileToLatLon(LatLonToTile(args.lat, args.lon, args.zoom)),
                        args.zoom, r)>>
    /\ UNCHANGED <<poleY, args, rvars, vvars, cvars>>

TileNext ==
    \/ ApplyLatLonToTile
    \/ ApplyRoundTrip
    \/ ApplyGetAdjacentTiles
    \/ ApplyGetVisibleTiles
    \/ ApplyGetPrefetchTiles

TileSpec == TileInit /\ [][TileNext]_vars

VNewChan == CHOOSE i \in ChanIds : vchan[i] = "free" /\ \A j \in ChanIds : vchan[j] = "free" => i <= j

VDropped(p, c) ==
    [i \in ChanIds |->
        IF i = vch[p] /\ \A q \in Callers \ {p} : vch[q] # i THEN "free" ELSE c[i]]

\* No caller is inside GetTile for the key.
VQuiet(key) == \A q \in Callers : ~(vpc[q] \notin {"idle", "done"} /\ vkey[q] = key)

vhist == <<vseen, vcalls, vnetCount, vnetOk, vfaults>>

\* GetTile, lines 79-88: the lookup in the map under the read lock.
VGetTile(p, z, x, y) ==
    /\ vpc[p] \in {"idle", "done"}
    /\ vcalls < MaxCalls
    /\ vcalls' = vcalls + 1
    /\ vkey' = [vkey EXCEPT ![p] = tileKey(z, x, y)]
    /\ IF tileKey(z, x, y) \in DOMAIN vtiles
         THEN /\ vpc' = [vpc EXCEPT ![p] = "done"]
              /\ vdata' = [vdata EXCEPT ![p] = VSuccess(vtiles[tileKey(z, x, y)])]
              /\ vhow' = [vhow EXCEPT ![p] = "hit"]
         ELSE /\ vpc' = [vpc EXCEPT ![p] = "v_lock"]
              /\ vdata' = [vdata EXCEPT ![p] = VNoResult]
              /\ vhow' = [vhow EXCEPT ![p] = None]
    /\ vseen' = [vseen EXCEPT ![p] =
                    IF VQuiet(tileKey(z, x, y)) /\ ~HasTile(z, x, y)
                      THEN vnetCount[tileKey(z, x, y)] ELSE -1]
    /\ UNCHANGED <<vtiles, vinFlight, vmu, vchan, vch, vnetCount, vnetOk, vfaults>>
    /\ UNCHANGED <<rvars, hasTile, tvars, cvars>>

\* GetTile, line 91: vtc.inFlightMu.Lock().
VLock(p) ==
    /\ vpc[p] = "v_lock"
    /\ vmu = 0
    /\ vmu' = p
    /\ vpc' = [vpc EXCEPT ![p] = "v_check"]
    /\ UNCHANGED <<vtiles, vinFlight, vchan, vkey, vch, vdata, vhow, vhist>>
    /\ UNCHANGED <<rvars, hasTile, tvars, cvars>>

\* GetTile, lines 92-104: join the fetch in progress, or register as owner.
VRegister(p) ==
    /\ vpc[p] = "v_check"
    /\ vmu = p
    /\ vmu' = 0
    /\ IF vkey[p] \in DOMAIN vinFlight
         THEN /\ vch' = [vch EXCEPT ![p] = vinFlight[vkey[p]]]
              /\ vpc' = [vpc EXCEPT ![p] = "v_wait"]
              /\ UNCHANGED <<vinFlight, vchan>>
         ELSE /\ vch' = [vch EXCEPT ![p] = VNewChan]
              /\ vchan' = [vchan EXCEPT ![VNewChan] = "open"]
              /\ vinFlight' = MapPut(vinFlight, vkey[p], VNewChan)
              /\ vpc' = [vpc EXCEPT ![p] = "v_fetch"]
    /\ UNCHANGED <<vtiles, vkey, vdata, vhow, vhist>>
    /\ UNCHANGED <<rvars, hasTile, tvars, cvars>>

\* GetTile, line 94: <-ch, enabled once the channel is closed.
VWait(p) ==
    /\ vpc[p] = "v_wait"
    /\ vchan[vch[p]] \notin {"free", "open"}
    /\ vpc' = [vpc EXCEPT ![p] = "v_reread"]
    /\ vhow' = [vhow EXCEPT ![p] = JoinedAs(vchan[vch[p]])]
    /\ UNCHANGED <<vtiles, vinFlight, vmu, vchan, vkey, vch, vdata, vhist>>
    /\ UNCHANGED <<rvars, hasTile, tvars, cvars>>

\* GetTile, lines 95-98: data := vtc.tiles[key]; return data, nil.
VReRead(p) ==
    /\ vpc[p] = "v_reread"
    /\ vdata' = [vdata EXCEPT ![p] = VSuccess(TilesLookup(vkey[p]))]
    /\ vpc' = [vpc EXCEPT ![p] = "done"]
    /\ vchan' = VDropped(p, vchan)
    /\ vch' = [vch EXCEPT ![p] = NoChan]
    /\ UNCHANGED <<vtiles, vinFlight, vmu, vkey, vhow, vhist>>
    /\ UNCHANGED <<rvars, hasTile, tvars, cvars>>

\* GetTile, line 107: data, err := vtc.fetchAndParse(z, x, y).
VFetchAndParse(p, o) ==
    /\ vpc[p] = "v_fetch"
    /\ vnetCount' = [vnetCount EXCEPT ![vkey[p]] = @ + 1]
    /\ vpc' = [vpc EXCEPT ![p] = "v_dlock"]
    /\ IF o = "ok"
         THEN /\ vdata' = [vdata EXCEPT ![p] = VSuccess(TileData(vkey[p], vnetCount[vkey[p]] + 1))]
              /\ vhow' = [vhow EXCEPT ![p] = "ok"]
              /\ vnetOk' = vnetOk \cup {vkey[p]}
              /\ UNCHANGED vfaults
         ELSE /\ vdata' = [vdata EXCEPT ![p] = VFailure]
              /\ vhow' = [vhow EXCEPT ![p] = "neterr"]
              /\ vfaults < MaxFaults
              /\ vfaults' = vfaults + 1
              /\ UNCHANGED vnetOk
    /\ UNCHANGED <<vtiles, vinFlight, vmu, vchan, vkey, vch, vseen, vcalls>>
    /\ UNCHANGED <<rvars, hasTile, tvars, cvars>>

\* GetTile, line 109: vtc.inFlightMu.Lock().
VCloseLock(p) ==
    /\ vpc[p] = "v_dlock"
    /\ vmu = 0
    /\ vmu' = p
    /\ vpc' = [vpc EXCEPT ![p] = "v_close"]
    /\ UNCHANGED <<vtiles, vinFlight, vchan, vkey, vch, vdata, vhow, vhist>>
    /\ UNCHANGED <<rvars, hasTile, tvars, cvars>>

\* GetTile, lines 110-112: delete the entry, close the channel, unlock.
VClose(p) ==
    /\ vpc[p] = "v_close"
    /\ vmu = p
    /\ vmu' = 0
    /\ vinFlight' = MapDelete(vinFlight, vkey[p])
    /\ vchan' = VDropped(p, [vchan EXCEPT ![vch[p]] = vhow[p]])
    /\ vch' = [vch EXCEPT ![p] = NoChan]
    /\ vpc' = [vpc EXCEPT ![p] = "v_result"]
    /\ UNCHANGED <<vtiles, vkey, vdata, vhow, vhist>>
    /\ UNCHANGED <<rvars, hasTile, tvars, cvars>>

\* VCacheResult with the insertion placed before the error check: the nil record
\* of a failed fetch is cached too.
VCacheResultAlways(p) ==
    /\ vpc[p] = "v_result"
    /\ vpc' = [vpc EXCEPT ![p] = "done"]
    /\ vhow' = [vhow EXCEPT ![p] = "own"]
    /\ vtiles' = MapPut(vtiles, vkey[p], vdata[p].data)
    /\ UNCHANGED <<vinFlight, vmu, vchan, vkey, vch, vdata, vhist>>
    /\ UNCHANGED <<rvars, hasTile, tvars, cvars>>

\* VCacheResult for a map that holds one tile at a time: inserting a record
\* evicts every other key.
VCacheResultSingleEntry(p) ==
    /\ vpc[p] = "v_result"
    /\ vpc' = [vpc EXCEPT ![p] = "done"]
    /\ vhow' = [vhow EXCEPT ![p] = "own"]
    /\ vtiles' = IF vdata[p].err THEN vtiles ELSE MapPut(EmptyMap, vkey[p], vdata[p].data)
    /\ UNCHANGED <<vinFlight, vmu, vchan, vkey, vch, vdata, vhist>>
    /\ UNCHANGED <<rvars, hasTile, tvars, cvars>>

\* GetTile, lines 114-123: return the error, or insert the record into the map
\* under the write lock and return it.
VCacheResult(p) ==
    /\ vpc[p] = "v_result"
    /\ vpc' = [vpc EXCEPT ![p] = "done"]
    /\ vhow' = [vhow EXCEPT ![p] = "own"]
    /\ vtiles' = IF vdata[p].err THEN vtiles ELSE MapPut(vtiles, vkey[p], vdata[p].data)
    /\ UNCHANGED <<vinFlight, vmu, vchan, vkey, vch, vdata, vhist>>
    /\ UNCHANGED <<rvars, hasTile, tvars, cvars>>

\* HasTile, lines 127-133, called by a goroutine that is not inside GetTile:
\* the lookup under the read lock.
VHasTile(p, z, x, y) ==
    /\ vpc[p] \in {"idle", "done"}
    /\ hasTile' = [hasTile EXCEPT ![p] = [key |-> tileKey(z, x, y), ok |-> HasTile(z, x, y)]]
    /\ UNCHANGED <<vtiles, vinFlight, vmu, vchan, vpc, vkey, vch, vdata, vhow, vhist>>
    /\ UNCHANGED <<rvars, tvars, cvars>>

VectorNext ==
    \/ \E p \in Callers : \E k \in VectorRequests : VGetTile(p, k[1], k[2], k[3])
    \/ \E p \in Callers : \E k \in VectorRequests : VHasTile(p, k[1], k[2], k[3])
    \/ \E p \in Callers : VLock(p)
    \/ \E p \in Callers : VRegister(p)
    \/ \E p \in Callers : VWait(p)
    \/ \E p \in Callers : VReRead(p)
    \/ \E p \in Callers : \E o \in ParseOutcomes : VFetchAndParse(p, o)
    \/ \E p \in Callers : VCloseLock(p)
    \/ \E p \in Callers : VClose(p)
    \/ \E p \in Callers : VCacheResult(p)

Spec == Init /\ [][Next]_vars

VectorSpec == Init /\ [][VectorNext]_vars

\* One step of process p inside the cache code. A goroutine that can run is
\* eventually scheduled; when a caller issues its next GetTile is up to it.
Step(p) ==
    \/ WorkerRecv(p)
    \/ FetchCheckCached(p)
    \/ FetchLock(p)
    \/ FetchRegister(p)
    \/ FetchWait(p)
    \/ FetchReRead(p)
    \/ \E o \in NetOutcomes : FetchOrigin(p, o)
    \/ \E o \in DiskOutcomes : WriteFileOpen(p, o)
    \/ \E o \in DiskOutcomes : WriteFileData(p, o)
    \/ DeferLock(p)
    \/ DeferClose(p)
    \/ QueuePrefetch(p)

\* The next-state relation of the fair specification: Next with fewer calls.
FairNext ==
    \/ \E p \in Callers : \E c \in Requests(p) : calls < LiveCalls /\ GetTile(p, c)
    \/ \E p \in Procs : Step(p)

FairSpec == Init /\ [][FairNext]_vars /\ \A p \in AppProcs : WF_vars(Step(p))

\* One step of process p inside the cache code, the worker's exit and the
\* steps of Close and PrefetchArea included.
PoolStep(p) ==
    \/ WorkerRecv(p)
    \/ FetchCheckCached(p)
    \/ FetchLock(p)
    \/ FetchRegister(p)
    \/ FetchWait(p)
    \/ FetchReRead(p)
    \/ FetchOrigin(p, "ok")
    \/ WriteFileOpen(p, "ok")
    \/ WriteFileData(p, "ok")
    \/ DeferLock(p)
    \/ DeferClose(p)
    \/ QueuePrefetch(p)
    \/ WorkerExit(p)
    \/ CloseWait(p)
    \/ PrefetchSend(p)

\* The cache with all its operations and fetches that succeed. The callers
\* issue at most PoolCalls calls: the first caller is the goroutine that shuts
\* the cache down, the others call GetTile, PrefetchArea and IsCached.
PoolNext ==
    \/ \E p \in Callers \ {1} : \E c \in Requests(p) : calls < PoolCalls /\ GetTile(p, c)
    \/ \E p \in Callers \ {1} : \E a \in AreaRequests :
           calls < PoolCalls /\ PrefetchArea(p, a.lat, a.lon, a.zoom, a.width, a.height)
    \/ \E p \in Callers \ {1} : \E c \in Requests(p) : calls < PoolCalls /\ IsCached(p, c)
    \/ \E p \in {1} : calls < PoolCalls /\ Close(p)
    \/ \E p \in Procs : PoolStep(p)

PoolSpec == Init /\ [][PoolNext]_vars /\ \A p \in AppProcs : WF_vars(PoolStep(p))

\* One step of process p inside the cache code, the worker's exit and the
\* wait of Close included.
WorkerStep(p) ==
    \/ WorkerRecv(p)
    \/ FetchCheckCached(p)
    \/ FetchLock(p)
    \/ FetchRegister(p)
    \/ FetchWait(p)
    \/ FetchReRead(p)
    \/ FetchOrigin(p, "ok")
    \/ WriteFileOpen(p, "ok")
    \/ WriteFileData(p, "ok")
    \/ DeferLock(p)
    \/ DeferClose(p)
    \/ QueuePrefetch(p)
    \/ WorkerExit(p)
    \/ CloseWait(p)

\* A cache constructed with any number of workers from 1 to MaxWorkers. The
\* first caller is the goroutine that shuts the cache down, the others call
\* GetTile, whose adjacency hints fill the queue; at most PoolCalls calls.
WorkerInit ==
    /\ \E n \in 1..MaxWorkers : NewTileCache(n)
    /\ NewVectorTileCache /\ TilesIdle /\ AppCamera

WorkerNext ==
    \/ \E p \in Callers \ {1} : \E c \in Requests(p) : calls < PoolCalls /\ GetTile(p, c)
    \/ \E p \in {1} : calls < PoolCalls /\ Close(p)
    \/ \E p \in Procs : WorkerStep(p)

WorkerSpec == WorkerInit /\ [][WorkerNext]_vars

\* The two caches are separate objects that share no variable: a behaviour of
\* the program is an interleaving of a behaviour of each, so the steps of one
\* are taken while the other is as constructed.
LockNext ==
    \/ NewVectorTileCache /\ Next
    \/ AppTileCache /\ VectorNext

LockSpec == Init /\ [][LockNext]_vars

\* One step of process p inside the cache code while the cache is open.
AreaStep(p) ==
    \/ WorkerRecv(p)
    \/ FetchCheckCached(p)
    \/ FetchLock(p)
    \/ FetchRegister(p)
    \/ FetchWait(p)
    \/ FetchReRead(p)
    \/ FetchOrigin(p, "ok")
    \/ WriteFileOpen(p, "ok")
    \/ WriteFileData(p, "ok")
    \/ DeferLock(p)
    \/ DeferClose(p)
    \/ QueuePrefetch(p)
    \/ PrefetchSend(p)

\* The open cache with fetches that succeed: every caller may call GetTile
\* (the tile loaders) and PrefetchArea (one goroutine for each request to
\* /prefetch), at most PoolCalls calls in all.
AreaNext ==
    \/ \E p \in Callers : \E c \in Requests(p) : calls < PoolCalls /\ GetTile(p, c)
    \/ \E p \in Callers : \E a \in AreaRequests :
           calls < PoolCalls /\ PrefetchArea(p, a.lat, a.lon, a.zoom, a.width, a.height)
    \/ \E p \in Procs : AreaStep(p)

\* PrefetchArea hands the result of GetPrefetchTiles to the queue: the calls
\* of the functions of pkg/tiles on explicit arguments, and the steps of the
\* open cache and its workers. The two share no variable, so each is explored
\* with the other as constructed.
PriorityNext ==
    \/ TilesIdle /\ AreaNext
    \/ AppTileCache /\ TileNext

PrioritySpec == TileInit /\ [][PriorityNext]_vars

(***************************************************************************)
(* Properties of the raster cache.                                         *)
(***************************************************************************)
\* The owners of a registration for coordinate c: the processes between
\* registering (line 237) and the end of the deferred function (line 244).
Owners(c) == {p \in Procs : pc[p] \in OwnerPcs /\ coord[p] = c}

\* C1: when no origin request and no disk write fails, at most one origin
\* request is made for each coordinate, whatever the interleaving of GetTile
\* calls and worker fetches.
C1_ExactlyOneFetch ==
    \A c \in Coords : faults = 0 => netCount[c] <= 1

\* C2: when no origin request and no disk write fails, every GetTile call that
\* has returned has returned, without error, the complete payload the origin
\* serves for its coordinate.
C2_IdenticalResults ==
    \A p \in Callers :
        (pc[p] = "done" /\ faults = 0) => data[p] = Success(Payload(coord[p]))

\* C3: for every coordinate there is at most one owner of a registration, the
\* registry has an entry for the key exactly while there is one, the entry is
\* the owner's open channel, and every process blocked on an open channel is
\* waiting for the owner of its own coordinate and makes no origin request.
C3_OneFetchPerKey ==
    \A c \in Coords :
        /\ Cardinality(Owners(c)) <= 1
        /\ String(c) \in DOMAIN inFlight <=> Owners(c) # {}
        /\ \A p \in Owners(c) : inFlight[String(c)] = ch[p] /\ chan[ch[p]] = "open"
        /\ \A p \in Procs :
               (pc[p] = "f_wait" /\ coord[p] = c /\ chan[ch[p]] = "open")
                   => \E q \in Owners(c) : q # p /\ ch[q] = ch[p]

\* C3, witness: a worker and a GetTile caller meet on one coordinate, one of
\* them making the origin request, the other blocked on its signal.
C3_Witness ==
    \E p \in Callers, w \in Workers :
        /\ coord[p] = coord[w]
        /\ {pc[p], pc[w]} = {"f_net", "f_wait"}
        /\ ch[p] = ch[w]

\* C7, as claimed: a GetTile caller released by the signal of a fetch that
\* failed returns an error.
C7_WaitersSeeFailure ==
    [][\A p \in Callers :
          (pc[p] = "f_reread" /\ how[p] = "joined_neterr" /\ pc'[p] # "f_reread")
              => data'[p].err]_vars

\* C7, amended: a process is blocked on a signal only while the fetch it
\* joined is in progress, and a GetTile caller released by the signal of a
\* fetch that failed returns an error unless the store holds a file for the
\* key when it reads it again, which is so only when some origin request for
\* the key has succeeded; it then returns that file's content.
C7_WaitersSeeFailureOrStore ==
    /\ [](\A p \in Procs :
            (pc[p] = "f_wait" /\ chan[ch[p]] = "open")
                => \E q \in Owners(coord[p]) : ch[q] = ch[p])
    /\ [][\A p \in Callers :
            (pc[p] = "f_reread" /\ how[p] = "joined_neterr" /\ pc'[p] # "f_reread")
                => \/ data'[p].err /\ tilePath(coord[p]) \notin DOMAIN store
                   \/ /\ coord[p] \in netOk
                      /\ tilePath(coord[p]) \in DOMAIN store
                      /\ data'[p] = Success(store[tilePath(coord[p])])]_vars

\* C7, witness: a caller released by the signal of a failed fetch is about to
\* read a store that has no file for its key.
C7_Witness ==
    \E p \in Callers :
        /\ pc[p] = "f_reread"
        /\ how[p] = "joined_neterr"
        /\ tilePath(coord[p]) \notin DOMAIN store

\* C8: a failed fetch leaves nothing behind. The store has a file only for
\* coordinates the origin has served, the registry has no entry for a key
\* nobody is fetching, and a GetTile issued for an uncached coordinate nobody
\* is fetching does not return from fetchTile before a new origin request for
\* the coordinate has been made.
C8_FailureNotCached ==
    /\ [](\A c \in Coords :
            /\ tilePath(c) \in DOMAIN store => c \in netOk
            /\ Quiet(c) => String(c) \notin DOMAIN inFlight)
    /\ [][\A p \in Callers :
            (pc[p] \in FetchPcs /\ pc'[p] \notin FetchPcs /\ seen[p] >= 0)
                => netCount'[coord[p]] > seen[p]]_vars

\* C8, witness: after a failed origin request for a coordinate, with the store
\* and the registry empty for it, a later GetTile has made a new request.
C8_Witness ==
    \E p \in Callers :
        /\ pc[p] = "d_close"
        /\ seen[p] >= 1
        /\ faults >= 1
        /\ netCount[coord[p]] > seen[p]
        /\ ~data[p].err

\* C10: under fair scheduling every process blocked on a signal is released
\* and every GetTile call and every worker fetch returns.
C10_NoWaiterLeftBlocked ==
    \A p \in AppProcs :
        /\ (pc[p] = "f_wait") ~> (pc[p] = "f_reread")
        /\ (pc[p] \in FetchPcs \cup {"g_queue"}) ~> (pc[p] \in {"done", "w_recv"})

\* C10, witness: a process is blocked on the signal of a fetch in progress
\* while the registry lock is held by another process.
C10_Witness ==
    \E p \in Procs :
        /\ pc[p] = "f_wait"
        /\ chan[ch[p]] = "open"
        /\ mu # 0

\* C11: the completion signal of a registration fires exactly once, in the
\* step in which its owner leaves fetchTile, and in that same step the entry is
\* removed from the registry; this happens on every way out of the fetch
\* (failed request, bad status, failed read, failed write, success). Until
\* then the owner's channel is open, so on success the signal comes after the
\* write to disk: a waiter released by the signal of a fetch that was written
\* finds the file. The registry has no entry for a key nobody is fetching.
C11_SignalOnceAfterRecording ==
    /\ [](/\ \A p \in Procs : pc[p] \in OwnerPcs => chan[ch[p]] = "open"
          /\ \A p \in Procs :
                 (pc[p] = "f_reread" /\ how[p] = "joined_ok")
                     => tilePath(coord[p]) \in DOMAIN store
          /\ \A c \in Coords : Owners(c) = {} => String(c) \notin DOMAIN inFlight)
    /\ [][/\ \A i \in ChanIds :
                 /\ (chan[i] = "open" /\ chan'[i] # "open")
                        => \E p \in Procs :
                               /\ pc[p] = "d_close" /\ ch[p] = i
                               /\ pc'[p] \notin FetchPcs
                               /\ inFlight[String(coord[p])] = i
                               /\ String(coord[p]) \notin DOMAIN inFlight'
                 /\ chan[i] \notin {"open", "free"} => chan'[i] \in {chan[i], "free"}
          /\ \A p \in Procs :
                 (pc[p] \in OwnerPcs /\ pc'[p] \notin OwnerPcs)
                     => /\ how[p] \in {"ok", "neterr", "diskerr"}
                        /\ chan[ch[p]] = "open" /\ chan'[ch[p]] # "open"
                        /\ String(coord[p]) \notin DOMAIN inFlight'
                        /\ (how[p] = "ok" => store[tilePath(coord[p])] = data[p].bytes)]_vars

\* C11, witness: after a failed fetch has been cleaned up, a waiter released
\* by the signal of a fetch that was written is about to read the file.
C11_Witness ==
    \E p \in Procs :
        /\ pc[p] = "f_reread"
        /\ how[p] = "joined_ok"
        /\ faults = 1
        /\ Owners(coord[p]) = {}

\* The fetch queue is full and every worker is busy fetching a coordinate
\* other than c.
PoolSaturated(c) ==
    /\ Len(fetchQueue) = QueueCap
    /\ \A w \in Workers : pc[w] \in FetchPcs /\ coord[w] # c

\* C12, as stated: a GetTile call in progress can always take its next step,
\* except while it waits for the signal of the fetch in progress for its own
\* key, and a call that meets a full queue and workers busy on other keys
\* returns.
C12_WaitsOnlyOnOwnKey ==
    /\ [](\A p \in Callers :
            pc[p] \in FetchPcs \cup {"g_queue"}
                => \/ ENABLED Step(p)
                   \/ /\ pc[p] = "f_wait"
                      /\ \E q \in Owners(coord[p]) : q # p /\ ch[q] = ch[p])
    /\ \A p \in Callers :
           (pc[p] \in FetchPcs \cup {"g_queue"} /\ PoolSaturated(coord[p]))
               ~> (pc[p] = "done")

\* C12: a GetTile call in progress can always take its next step, except
\* while it waits for the signal of the fetch in progress for its own key or
\* for the registry lock, which its holder releases with its next step; it
\* never waits for room in the fetch queue or for a worker. A call that meets a
\* full queue and workers busy on other keys returns all the same.
C12_ForegroundNeverBlocks ==
    /\ [](\A p \in Callers :
            pc[p] \in FetchPcs \cup {"g_queue"}
                => \/ ENABLED Step(p)
                   \/ /\ pc[p] = "f_wait"
                      /\ \E q \in Owners(coord[p]) : q # p /\ ch[q] = ch[p]
                   \/ /\ pc[p] \in {"f_lock", "d_lock"}
                      /\ mu \in Procs \ {p}
                      /\ pc[mu] \in {"f_check", "d_close"}
                      /\ ENABLED Step(mu))
    /\ \A p \in Callers :
           (pc[p] \in FetchPcs \cup {"g_queue"} /\ PoolSaturated(coord[p]))
               ~> (pc[p] = "done")

\* C12, witness: a GetTile call that fetched its tile itself is at the
\* enqueue of the first adjacent tile while the queue is full and every worker
\* is busy on another key.
C12_Witness ==
    \E p \in Callers :
        /\ pc[p] = "g_queue"
        /\ qi[p] = 1
        /\ netCount[coord[p]] = 1
        /\ PoolSaturated(coord[p])

\* Caller p takes a step of one of the two enqueue loops (queuePrefetch,
\* PrefetchArea) in which the send is attempted: the loop moves on to the next
\* coordinate or ends, or the send panics.
Offers(p) ==
    /\ pc[p] \in {"g_queue", "a_send"}
    /\ qi'[p] # qi[p] \/ pc'[p] = "panic"

\* C13: the fetch queue never holds more coordinates than its capacity; an
\* enqueue attempted by the adjacency hint of GetTile or by PrefetchArea while
\* the queue is full leaves the queue as it is and the loop moves on to the
\* next coordinate or returns, and the loop is never made to wait.
C13_BoundedDropOnFull ==
    /\ [](/\ Len(fetchQueue) <= QueueCap
          /\ \A p \in Callers :
                 pc[p] \in {"g_queue", "a_send"}
                     => ENABLED (QueuePrefetch(p) \/ PrefetchSend(p)))
    /\ [][\A p \in Callers :
            (Offers(p) /\ Len(fetchQueue) = QueueCap) =>
                /\ fetchQueue' = fetchQueue
                /\ \/ pc'[p] = pc[p] /\ qi'[p] = qi[p] + 1
                   \/ pc'[p] = "done"]_vars

\* C13, witness: PrefetchArea has offered three coordinates and no worker has
\* taken one: the first two fill the queue, the third was dropped.
C13_Witness ==
    \E p \in Callers :
        /\ pc[p] = "a_send"
        /\ qi[p] = 4
        /\ Len(fetchQueue) = QueueCap
        /\ fetchQueue = SubSeq(tilesToFetch[p], 1, QueueCap)

\* Close has been called and has returned.
CloseReturned == closed /\ \A p \in Procs : pc[p] \notin {"c_wait", "panic", "killed"}

\* C14: once Close has been called every worker eventually leaves its loop
\* and Close returns, and Close has not returned while a worker is still
\* running.
C14_ShutdownTerminates ==
    /\ [](CloseReturned => \A w \in Workers : pc[w] = "w_exit")
    /\ closed ~> (CloseReturned /\ \A w \in Workers : pc[w] = "w_exit")

\* C15: an enqueue attempted by the adjacency hint of GetTile or by
\* PrefetchArea once the queue is closed adds nothing to the queue and does not
\* fault: the loop goes on to its next coordinate or its operation returns.
C15_NoEnqueueAfterClose ==
    [][\A p \in Callers :
          (closed /\ pc[p] \in {"g_queue", "a_send"}
                  /\ pc'[p] # "killed" /\ <<pc[p], qi[p]>> # <<pc'[p], qi'[p]>>)
              => /\ fetchQueue' = fetchQueue
                 /\ pc'[p] \in {pc[p], "done"}]_vars

\* C16: a GetTile call enters fetchTile only when the store has no file for
\* its coordinate; otherwise the step that makes the call is the whole call:
\* the caller has the file's content and no error, and the store, the
\* registry, the channels, the fetch queue and the count of origin requests
\* are as they were.
C16_HitHasNoSideEffects ==
    [][calls' # calls =>
          IF \E p \in Callers : pc[p] # "f_read" /\ pc'[p] = "f_read"
            THEN \A p \in Callers :
                     (pc[p] # "f_read" /\ pc'[p] = "f_read")
                         => tilePath(coord'[p]) \notin DOMAIN store
            ELSE /\ UNCHANGED <<store, inFlight, chan, fetchQueue, netCount, netOk>>
                 /\ \A p \in Procs : pc'[p] \notin {"g_queue", "panic"} \/ pc'[p] = pc[p]
                 /\ \E p \in Callers :
                        /\ pc'[p] = "done" /\ how'[p] = "hit"
                        /\ tilePath(coord'[p]) \in DOMAIN store
                        /\ data'[p] = Success(store[tilePath(coord'[p])])]_vars

\* C16, witness: a GetTile call has returned the complete tile from the
\* store.
C16_Witness ==
    \E p \in Callers :
        /\ pc[p] = "done"
        /\ how[p] = "hit"
        /\ data[p] = Success(Payload(coord[p]))
        /\ netCount[coord[p]] = 1

\* The neighbours of a tile in the order right, left, down, up, those off the
\* map left out.
RightLeftDownUp(t) ==
    LET onMap(c) == /\ c.X >= 0 /\ c.X < Pow2(t.Zoom)
                    /\ c.Y >= 0 /\ c.Y < Pow2(t.Zoom)
    IN  SelectSeq(<<[t EXCEPT !.X = @ + 1], [t EXCEPT !.X = @ - 1],
                    [t EXCEPT !.Y = @ + 1], [t EXCEPT !.Y = @ - 1]>>, onMap)

\* C17: a GetTile call that missed the store and got its tile goes through the
\* neighbours of the tile in the order right, left, down, up and offers each
\* to the fetch queue, where it is appended at the tail if there is room; a
\* call that failed returns at once and leaves the queue alone; and a worker
\* takes the coordinate at the head of the queue.
C17_AdjacencyHintOrder ==
    [][/\ \A p \in Callers :
             /\ (pc[p] \in FetchPcs /\ pc'[p] \notin FetchPcs)
                    => IF data'[p].err
                         THEN pc'[p] = "done" /\ fetchQueue' = fetchQueue
                         ELSE pc'[p] = "g_queue" /\ qi'[p] = 1 /\ fetchQueue' = fetchQueue
             /\ (pc[p] # "g_queue" /\ pc'[p] = "g_queue") => pc[p] \in FetchPcs
             /\ (pc[p] = "g_queue" /\ qi'[p] # qi[p])
                    => LET offered == RightLeftDownUp(coord[p])
                       IN  /\ qi[p] \in 1..Len(offered)
                           /\ fetchQueue' = IF Len(fetchQueue) < QueueCap
                                               THEN Append(fetchQueue, offered[qi[p]])
                                               ELSE fetchQueue
                           /\ IF qi[p] < Len(offered)
                                THEN pc'[p] = "g_queue" /\ qi'[p] = qi[p] + 1
                                ELSE pc'[p] = "done"
       /\ \A w \in Workers :
             (pc[w] = "w_recv" /\ pc'[w] # "w_recv")
                 => coord'[w] = Head(fetchQueue) /\ fetchQueue' = Tail(fetchQueue)]_vars

\* C17, witness: a GetTile call that fetched the tile right of the corner has
\* offered its right and its left neighbour, which are in the queue in that
\* order, and is about to offer the one below.
C17_Witness ==
    \E p \in Callers :
        /\ pc[p] = "g_queue"
        /\ qi[p] = 3
        /\ coord[p] = TileCoord(1, 0, MinZoom)
        /\ fetchQueue = <<TileCoord(2, 0, MinZoom), TileCoord(0, 0, MinZoom)>>

\* C18: an owner whose origin request succeeded and whose write to disk failed
\* returns the bytes it fetched with no error, leaves no file for its
\* coordinate in the store (the coordinate having been fetched this once
\* only), and on its return the entry is removed and the signal fired.
C18_PersistenceFailureTolerated ==
    /\ [](\A p \in Procs :
            (pc[p] = "d_close" /\ how[p] = "diskerr")
                => /\ data[p] = Success(Payload(coord[p]))
                   /\ netCount[coord[p]] = 1 => tilePath(coord[p]) \notin DOMAIN store)
    /\ [][\A p \in Procs :
            (pc[p] = "d_close" /\ how[p] = "diskerr" /\ pc'[p] # "d_close")
                => /\ String(coord[p]) \notin DOMAIN inFlight'
                   /\ chan'[ch[p]] # "open"
                   /\ p \in Callers => data'[p] = Success(Payload(coord[p]))]_vars

\* C19: PrefetchArea computes GetPrefetchTiles of its arguments and offers its
\* elements to the fetch queue one by one, in their order, each appended at
\* the tail if there is room and dropped otherwise; its own steps leave the
\* store, the registry and the count of origin requests as they were, and
\* its loop is never made to wait.
C19_PrefetchAreaEnqueueOnly ==
    /\ [](\A p \in Callers :
            pc[p] = "a_send"
                => /\ \E a \in AreaRequests :
                          tilesToFetch[p] =
                              GetPrefetchTiles(a.lat, a.lon, a.zoom, a.width, a.height)
                   /\ qi[p] \in 1..Len(tilesToFetch[p])
                   /\ ENABLED PrefetchSend(p))
    /\ [][\A p \in Callers :
            /\ (pc[p] # "a_send" /\ pc'[p] = "a_send")
                   => /\ qi'[p] = 1
                      /\ UNCHANGED <<store, inFlight, chan, fetchQueue, netCount, netOk>>
            /\ (pc[p] = "a_send" /\ qi'[p] # qi[p])
                   => /\ fetchQueue' = IF Len(fetchQueue) < QueueCap
                                          THEN Append(fetchQueue, tilesToFetch[p][qi[p]])
                                          ELSE fetchQueue
                      /\ UNCHANGED <<store, inFlight, chan, netCount, netOk>>
                      /\ IF qi[p] < Len(tilesToFetch[p])
                           THEN /\ pc'[p] = "a_send" /\ qi'[p] = qi[p] + 1
                                /\ tilesToFetch'[p] = tilesToFetch[p]
                           ELSE pc'[p] = "done"]_vars

\* C19, witness: PrefetchArea for the corner viewport is going through the
\* three rows of three tiles; it has offered the first five, a worker has taken
\* the first, and the queue holds the second and the fourth: the third and the
\* fifth met a full queue.
C19_Witness ==
    \E p \in Callers :
        /\ pc[p] = "a_send"
        /\ tilesToFetch[p] = [k \in 1..9 |->
                                 TileCoord((k - 1) % 3, (k - 1) \div 3, MaxZoom + 2)]
        /\ qi[p] = 6
        /\ fetchQueue = <<tilesToFetch[p][2], tilesToFetch[p][4]>>
        /\ \E w \in Workers : pc[w] \in FetchPcs /\ coord[w] = tilesToFetch[p][1]

\* C20: a step in which a caller gets a value back from IsCached (the
\* history of its IsCached calls changes) returns true exactly when the store
\* holds a file for the coordinate asked for, and leaves the store, the
\* registry, its lock, the channels, the fetch queue, the WaitGroup and the
\* count of origin requests as they were; the caller has returned and no
\* other goroutine moves, so no fetch starts in that step.
C20_IsCachedPure ==
    [][\A p \in Callers :
          isCached'[p] # isCached[p]
              => /\ isCached'[p].ok <=> (tilePath(coord'[p]) \in DOMAIN store)
                 /\ coord'[p] \in RequestCoords
                 /\ pc'[p] = "done"
                 /\ UNCHANGED <<store, inFlight, mu, chan, fetchQueue, closed, wg>>
                 /\ UNCHANGED <<netCount, netOk>>
                 /\ \A q \in Procs \ {p} : pc'[q] = pc[q] /\ coord'[q] = coord[q]]_vars

\* C20, witness: IsCached has returned true for a tile in the store while the
\* registry has an entry for another tile, and the queue is not empty.
C20_Witness ==
    \E p \in Callers :
        /\ pc[p] = "done"
        /\ isCached[p].ok
        /\ isCached[p].n = calls
        /\ coord[p] \in RequestCoords
        /\ data[p] = NoResult
        /\ tilePath(coord[p]) \in DOMAIN store
        /\ DOMAIN inFlight # {}
        /\ fetchQueue # <<>>

\* The registry entry of a key: the channel registered for it, if any.
InFlightEntry(key) == IF key \in DOMAIN inFlight THEN <<inFlight[key]>> ELSE <<>>

\* Process p takes a step of a fetch that fails: the origin request that
\* fails, the clean-up that follows, or a re-read that finds no file (a
\* worker drops the error it gets, line 181, so the file is looked at).
FailedFetchStep(p) ==
    /\ pc[p] \in FetchPcs
    /\ pc'[p] # pc[p]
    /\ \/ data[p].err
       \/ data'[p].err
       \/ pc[p] = "f_reread" /\ ReadFile(tilePath(coord[p])).err

\* C21: a failed fetch of a key, by a caller or by a worker, leaves the store
\* entry and the registry entry of every other key as they were, stops no
\* other goroutine and returns without the registry lock, so that fetches of
\* other keys go on and succeed.
C21_FailureScopedToOneTile ==
    [][\A p \in Procs :
          FailedFetchStep(p) =>
            /\ \A c \in Coords \ {coord[p]} :
                  /\ ReadFile(tilePath(c))' = ReadFile(tilePath(c))
                  /\ InFlightEntry(String(c))' = InFlightEntry(String(c))
            /\ \A q \in Procs \ {p} : pc'[q] = pc[q]
            /\ pc'[p] \notin FetchPcs => mu' # p]_vars

\* The fetch of tile (1, 0) has failed and, after it, the same caller's origin
\* request for the corner tile has succeeded (the corner tile is requested
\* from the origin once, by this caller, so no hint for (1, 0) was ever
\* queued and the failed fetch was this caller's previous call).
C21_Witness ==
    \E p \in Callers \ {1} :
        /\ pc[p] = "f_wopen"
        /\ coord[p] = CornerTile
        /\ how[p] = "ok"
        /\ netCount[CornerTile] = 1
        /\ netCount[TileCoord(1, 0, MinZoom)] = 1
        /\ TileCoord(1, 0, MinZoom) \notin netOk

\* Caller p takes a step of an enqueue loop: the select of queuePrefetch or of
\* PrefetchArea runs for the next coordinate.
EnqueueStep(p) ==
    /\ pc[p] \in {"g_queue", "a_send"}
    /\ pc'[p] # "killed"
    /\ <<pc[p], qi[p]>> # <<pc'[p], qi'[p]>>

\* C33: whatever the interleaving of Close with GetTile and PrefetchArea calls
\* that are still running, no caller runs the select that sends to the fetch
\* queue once the queue is closed.
C33_NoSendAfterClose ==
    [][\A p \in Callers : EnqueueStep(p) => ~closed]_vars

\* A worker leaves its loop in this step.
WorkerExitStep == \E w \in Workers : pc[w] # "w_exit" /\ pc'[w] = "w_exit"

\* A coordinate leaves the fetch queue in this step.
DequeueStep == Len(fetchQueue') < Len(fetchQueue)

\* C34: a worker exits only when the fetch queue is closed and empty; a
\* coordinate leaves the queue only by a worker receiving the head of the
\* queue and entering fetchTile with it; and when Close has returned the
\* queue is empty, every worker has exited, and every coordinate that was in
\* the queue when Close closed it has been through fetchTile (its tile is in
\* the store or a request for it was made to the origin).
C34_CloseDrainsQueue ==
    /\ [][WorkerExitStep => closed /\ fetchQueue = <<>>]_vars
    /\ [][DequeueStep =>
            \E w \in Workers :
                /\ pc[w] = "w_recv" /\ pc'[w] = "f_read"
                /\ coord'[w] = Head(fetchQueue)
                /\ fetchQueue' = Tail(fetchQueue)]_vars
    /\ [](CloseReturned =>
            /\ fetchQueue = <<>>
            /\ \A w \in Workers : pc[w] = "w_exit"
            /\ \A i \in 1..Len(queuedAtClose) :
                  \/ tilePath(queuedAtClose[i]) \in DOMAIN store
                  \/ netCount[queuedAtClose[i]] > 0)

\* C34, witness: Close was called with a full queue and has returned; the
\* queue is empty and the queued tiles are in the store.
C34_Witness ==
    /\ CloseReturned
    /\ Len(queuedAtClose) = QueueCap
    /\ fetchQueue = <<>>
    /\ \A i \in 1..Len(queuedAtClose) : tilePath(queuedAtClose[i]) \in DOMAIN store

\* The positions of fetchTile at which a goroutine reads or writes the disk,
\* talks to the origin, or is blocked on a completion channel or on the lock.
IoPcs == {"f_read", "f_wait", "f_reread", "f_net", "f_wopen", "f_wdata", "d_lock", "f_lock"}

\* The same for VectorTileCache.GetTile, and its positions whose next step
\* takes vtc.tilesMu (lines 82-88, 95-97, 117-119, 129-132).
VIoPcs == {"v_wait", "v_fetch", "v_lock", "v_dlock"}
TilesMuPcs == {"idle", "done", "v_reread", "v_result"}

\* C35: the holder of tc.inFlightMu is between Lock and Unlock of lines
\* 227-237 or 241-244, where it only reads or writes the registry, and its next
\* step, which releases the lock, can always be taken; no goroutine that is
\* reading or writing the disk, talking to the origin or blocked on a channel
\* holds the lock. In the vector cache the same holds of vtc.inFlightMu, and
\* its holder is not at a position that takes vtc.tilesMu.
C35_LockShortCriticalSection ==
    /\ \A p \in Procs :
          /\ mu = p => pc[p] \in {"f_check", "d_close"}
          /\ pc[p] \in IoPcs => mu # p
          /\ mu = p => ENABLED (FetchRegister(p) \/ DeferClose(p))
    /\ \A p \in Callers :
          /\ vmu = p => vpc[p] \in {"v_check", "v_close"}
          /\ vpc[p] \in VIoPcs \cup TilesMuPcs => vmu # p
          /\ vmu = p => ENABLED (VRegister(p) \/ VClose(p))

\* C35, witness: a fetch of one tile is waiting for the origin while the
\* owner of another tile, whose request was made, holds the lock to complete.
C35_Witness ==
    \E p, q \in Procs :
        /\ pc[p] = "f_net"
        /\ pc[q] = "d_close" /\ mu = q
        /\ coord[p] # coord[q]
        /\ netCount[coord[q]] > 0

\* Worker w has dequeued a coordinate and is about to run fetchTile on it,
\* and the store holds the tile.
DequeuedStored(w) ==
    /\ w \in Workers
    /\ pc[w] = "f_read"
    /\ tilePath(coord[w]) \in DOMAIN store

\* C36: a file of the store is never removed, and when a worker that has
\* dequeued a coordinate whose tile is in the store takes its step, fetchTile
\* returns from the read of line 222 with the stored bytes: the worker is back
\* at its receive, and the store, the registry, the lock, the channels and the
\* counts of origin requests and of failures are unchanged.
C36_RaceGuard ==
    /\ [][\A path \in DOMAIN store : path \in DOMAIN store']_vars
    /\ [][\A w \in Workers :
            (DequeuedStored(w) /\ pc'[w] # pc[w])
                => /\ FetchReturn(w, Success(store[tilePath(coord[w])]), chan)
                   /\ pc'[w] = "w_recv"
                   /\ UNCHANGED <<store, inFlight, mu, chan, fetchQueue>>
                   /\ UNCHANGED <<netCount, netOk, faults>>]_vars

\* C36, witness: a worker has dequeued a coordinate whose tile a caller has
\* fetched and stored in the meantime, with one origin request.
C36_Witness ==
    \E w \in Workers :
        /\ DequeuedStored(w)
        /\ netCount[coord[w]] = 1
        /\ store[tilePath(coord[w])] = Payload(coord[w])
        /\ String(coord[w]) \notin DOMAIN inFlight

\* The fetches in progress that came from the queue, and those of GetTile.
BackgroundFetches == {p \in Workers : pc[p] \in FetchPcs}
ForegroundFetches == {p \in Callers : pc[p] \in FetchPcs}

\* C37: in a cache constructed with any number of workers, at most that many
\* fetches that came from the queue are in progress, and while the program
\* runs the WaitGroup counts the workers that have not exited; a worker enters
\* fetchTile only by receiving the head of the queue, which that step removes,
\* and no other goroutine, worker or caller, moves in that step, so no two
\* workers hold a coordinate from the same receive; and a caller never
\* receives from the queue: the fetch of a GetTile call is for the coordinate
\* it was called with and runs whether or not the workers are busy.
C37_BoundedWorkerPool ==
    /\ [](/\ Cardinality(BackgroundFetches) <= workers
          /\ ~Panicked => wg = Cardinality({w \in Workers : pc[w] # "w_exit"}))
    /\ [][\A w \in Workers :
            (pc[w] = "w_recv" /\ pc'[w] \in FetchPcs)
                => /\ fetchQueue # <<>>
                   /\ coord'[w] = Head(fetchQueue)
                   /\ fetchQueue' = Tail(fetchQueue)
                   /\ \A q \in Procs \ {w} : pc'[q] = pc[q] /\ coord'[q] = coord[q]]_vars
    /\ [][Len(fetchQueue') < Len(fetchQueue)
            => /\ fetchQueue' = Tail(fetchQueue)
               /\ Cardinality({w \in Workers : pc[w] = "w_recv" /\ pc'[w] \in FetchPcs}) = 1]_vars
    /\ [][\A p \in Callers :
            /\ Len(fetchQueue') < Len(fetchQueue) => pc'[p] = pc[p]
            /\ (pc[p] \notin FetchPcs /\ pc'[p] \in FetchPcs)
                  => /\ coord'[p] \in Requests(p)
                     /\ fetchQueue' = fetchQueue]_vars

\* C37, witness: the cache has MaxWorkers workers, each is waiting for the
\* origin for a coordinate it has dequeued, no two for the same one, and a
\* caller is inside fetchTile at the same time: more goroutines are in
\* fetchTile than the cache has workers.
C37_Witness ==
    /\ workers = MaxWorkers
    /\ Cardinality(BackgroundFetches) = workers
    /\ \A w \in Workers : pc[w] = "f_net"
    /\ \A v, w \in Workers : v # w => coord[v] # coord[w]
    /\ ForegroundFetches # {}

\* The place of a tile of a GetPrefetchTiles result in the order of the
\* levels: the current zoom, then zoom - 1, then zoom + 1.
LevelRank(t, zoom) ==
    IF t.Zoom = zoom THEN 0 ELSE IF t.Zoom = zoom - 1 THEN 1 ELSE 2

\* The smaller of two numbers.
Min(a, b) == IF a < b THEN a ELSE b

\* The coordinates of its list that a PrefetchArea loop which began with the
\* queue at areaStart[p].queue has got into the queue after offering k of them.
Admitted(p, k) ==
    SubSeq(tilesToFetch[p], 1, Min(k, QueueCap - Len(areaStart[p].queue)))

\* The result of GetPrefetchTiles is in the order of the levels.
LevelsInOrder ==
    fn = "GetPrefetchTiles" =>
        \A i \in 1..(Len(result) - 1) :
            LevelRank(result[i], args.zoom) <= LevelRank(result[i + 1], args.zoom)

\* C38, as stated: in the sequence GetPrefetchTiles returns no tile comes
\* before a tile of an earlier level (the current zoom, then zoom - 1, then
\* zoom + 1); and while a PrefetchArea loop runs and no worker receives from
\* the queue, the queue is what it was when the loop began followed by the
\* first tiles of the list, as many as were offered and found one of the m
\* slots free at the beginning, so that the loop ends with exactly the first
\* m tiles admitted.
C38_PrefetchPriority ==
    /\ []LevelsInOrder
    /\ [](\A p \in Callers :
            (pc[p] = "a_send" /\ areaStart[p].quiet) =>
                fetchQueue = areaStart[p].queue \o Admitted(p, qi[p] - 1))
    /\ [][\A p \in Callers :
            (pc[p] = "a_send" /\ areaStart[p].quiet /\ pc'[p] = "done") =>
                fetchQueue' = areaStart[p].queue \o Admitted(p, Len(tilesToFetch[p]))]_vars

\* C38, with the condition it needs: the same, for a PrefetchArea loop during
\* which no worker receives from the queue and no other goroutine sends to
\* it; and when only the receives are excluded, the queue still begins with
\* what it held when the loop began.
C38_PrefetchPriorityUndisturbed ==
    /\ []LevelsInOrder
    /\ [](\A p \in Callers :
            (pc[p] = "a_send" /\ areaStart[p].quiet) =>
                /\ Len(fetchQueue) >= Len(areaStart[p].queue)
                /\ SubSeq(fetchQueue, 1, Len(areaStart[p].queue)) = areaStart[p].queue
                /\ areaStart[p].alone =>
                      fetchQueue = areaStart[p].queue \o Admitted(p, qi[p] - 1))
    /\ [][\A p \in Callers :
            (pc[p] = "a_send" /\ areaStart[p].quiet /\ areaStart[p].alone
                 /\ pc'[p] = "done") =>
                fetchQueue' = areaStart[p].queue \o Admitted(p, Len(tilesToFetch[p]))]_vars

\* C38, witness: a PrefetchArea loop that began with one free slot in the
\* queue is about to offer its last tile, no worker has received and no other
\* goroutine has sent in the meantime, and the queue has gained the first
\* tile of the list only.
C38_Witness ==
    \E p \in Callers :
        /\ pc[p] = "a_send"
        /\ areaStart[p].quiet /\ areaStart[p].alone
        /\ Len(areaStart[p].queue) = QueueCap - 1
        /\ qi[p] = Len(tilesToFetch[p])
        /\ Len(tilesToFetch[p]) > 1
        /\ fetchQueue = Append(areaStart[p].queue, tilesToFetch[p][1])

(***************************************************************************)
(* Properties of the functions of pkg/tiles, over TileSpec.                *)
(***************************************************************************)
\* The tile under the point the function was called with.
CenterTile == LatLonToTile(args.lat, args.lon, args.zoom)

\* A coordinate that exists at its own zoom level.
OnMap(t) ==
    /\ t.X >= 0 /\ t.X <= Pow2(t.Zoom) - 1
    /\ t.Y >= 0 /\ t.Y <= Pow2(t.Zoom) - 1

\* C23: for every zoom level from 0 up and every point, the poles and the date
\* line included, LatLonToTile returns x and y within 0..2^zoom - 1 and the
\* zoom it was given.
C23_LatLonToTileInRange ==
    fn = "LatLonToTile" =>
        /\ Len(result) = 1
        /\ result[1].X \in 0..(Pow2(args.zoom) - 1)
        /\ result[1].Y \in 0..(Pow2(args.zoom) - 1)
        /\ result[1].Zoom = args.zoom

\* LatLonToTile(-90, 180, 12) on a build that converts +Inf to the largest
\* integer: both coordinates are clamped to 4095.
C23_Witness ==
    /\ fn = "LatLonToTile"
    /\ args.lat = -900000 /\ args.lon = 1800000 /\ args.zoom = 12
    /\ poleY = "max"
    /\ result = <<TileCoord(4095, 4095, 12)>>

\* C24: for a tile away from the edges GetAdjacentTiles returns (x+1, y),
\* (x-1, y), (x, y+1), (x, y-1) in that order; for the tile (0, 0) of a zoom
\* level with more than one tile it returns (1, 0), (0, 1); and always the
\* neighbours that are on the map, at the same zoom, in the order right,
\* left, down, up.
C24_AdjacentTilesOrderAndCount ==
    fn = "GetAdjacentTiles" =>
        LET t == CenterTile
            maxTile == Pow2(t.Zoom) - 1
        IN  /\ (0 < t.X /\ t.X < maxTile /\ 0 < t.Y /\ t.Y < maxTile) =>
                  result = <<TileCoord(t.X + 1, t.Y, t.Zoom), TileCoord(t.X - 1, t.Y, t.Zoom),
                             TileCoord(t.X, t.Y + 1, t.Zoom), TileCoord(t.X, t.Y - 1, t.Zoom)>>
            /\ (t.X = 0 /\ t.Y = 0 /\ t.Zoom >= 1) =>
                  result = <<TileCoord(1, 0, t.Zoom), TileCoord(0, 1, t.Zoom)>>
            /\ \A i \in 1..Len(result) : OnMap(result[i]) /\ result[i].Zoom = t.Zoom
            /\ result = RightLeftDownUp(t)

\* GetAdjacentTiles of Amsterdam's tile at zoom 12, which is away from the
\* edges, has returned its four neighbours.
C24_Witness ==
    /\ fn = "GetAdjacentTiles"
    /\ CenterTile = TileCoord(2103, 1346, 12)
    /\ result = <<TileCoord(2104, 1346, 12), TileCoord(2102, 1346, 12),
                  TileCoord(2103, 1347, 12), TileCoord(2103, 1345, 12)>>

\* viewportDimension / 256 rounded up.
CeilTiles(d) == (d + 255) \div 256

\* The centre tile is so far from the edges of the map that no tile of the
\* grid around it is left out.
FarFromEdges ==
    LET reachX == CeilTiles(args.width) + 3
        reachY == CeilTiles(args.height) + 3
        maxTile == Pow2(args.zoom) - 1
    IN  /\ CenterTile.X - reachX >= 0 /\ CenterTile.X + reachX <= maxTile
        /\ CenterTile.Y - reachY >= 0 /\ CenterTile.Y + reachY <= maxTile

\* The tiles at most hx columns and hy rows away from tile c.
Rectangle(c, hx, hy) ==
    {TileCoord(x, y, c.Zoom) : x \in (c.X - hx)..(c.X + hx), y \in (c.Y - hy)..(c.Y + hy)}

\* C25 as stated: away from the edges GetVisibleTiles returns
\* (ceil(width / 256) + 3) * (ceil(height / 256) + 3) tiles.
C25_VisibleTilesGridSize ==
    (fn = "GetVisibleTiles" /\ FarFromEdges) =>
        Len(result) = (CeilTiles(args.width) + 3) * (CeilTiles(args.height) + 3)

\* C25, amended: GetVisibleTiles returns, once each, the tiles on the map at
\* most hx columns and hy rows away from the centre tile, where hx is
\* (width / 256 + 3) / 2 and hy is (height / 256 + 3) / 2 in integer division:
\* away from the edges (2 hx + 1) * (2 hy + 1) tiles, which is 9 * 5 = 45 for
\* a viewport of 1280 x 720.
C25_VisibleTilesOddGrid ==
    fn = "GetVisibleTiles" =>
        LET hx == (args.width \div 256 + 3) \div 2
            hy == (args.height \div 256 + 3) \div 2
        IN  /\ Range(result) = {t \in Rectangle(CenterTile, hx, hy) : OnMap(t)}
            /\ Len(result) = Cardinality(Range(result))
            /\ FarFromEdges => Len(result) = (2 * hx + 1) * (2 * hy + 1)
            /\ (FarFromEdges /\ args.width = 1280 /\ args.height = 720) => Len(result) = 45

\* GetVisibleTiles for 1280 x 720 around Amsterdam at zoom 12 has returned 45
\* tiles, from (2099, 1344) to (2107, 1348).
C25_Witness ==
    /\ fn = "GetVisibleTiles"
    /\ args = [lat |-> 523676, lon |-> 49041, zoom |-> 12, width |-> 1280, height |-> 720]
    /\ FarFromEdges
    /\ Len(result) = 45
    /\ result[1] = TileCoord(2099, 1344, 12)
    /\ result[45] = TileCoord(2107, 1348, 12)

\* The tiles of a result that are at zoom level z.
AtZoom(z) == {t \in Range(result) : t.Zoom = z}

\* C26: GetPrefetchTiles returns tiles of the zoom levels zoom - 1, zoom and
\* zoom + 1 only, and for a zoom within 2..18 none of a level outside 2..18:
\* no tile of zoom 19 when called with 18, none of zoom 1 when called with 2.
C26_PrefetchZoomClamped ==
    fn = "GetPrefetchTiles" =>
        /\ \A t \in Range(result) : t.Zoom \in {args.zoom - 1, args.zoom, args.zoom + 1}
        /\ args.zoom \in MinZoom..MaxZoom =>
              \A t \in Range(result) : t.Zoom \in MinZoom..MaxZoom
        /\ args.zoom = MaxZoom => AtZoom(MaxZoom + 1) = {}
        /\ args.zoom = MinZoom => AtZoom(MinZoom - 1) = {}

\* GetPrefetchTiles called with zoom 18 has returned tiles of zoom 18 and 17
\* and none of zoom 19.
C26_Witness ==
    /\ fn = "GetPrefetchTiles"
    /\ args.zoom = MaxZoom
    /\ AtZoom(MaxZoom) # {}
    /\ AtZoom(MaxZoom - 1) # {}
    /\ AtZoom(MaxZoom + 1) = {}

\* The half extent GetPrefetchTiles uses at the current zoom level.
PrefetchHalf(d) == ((5 * (d \div 256 + 2)) \div 2) \div 2

\* C27: with (halfX, halfY) the half extent at the current zoom, the tiles of
\* zoom + 1 are those on the map within halfX columns and halfY rows of the
\* centre tile of zoom + 1, and the tiles of zoom - 1 those within halfX / 2
\* columns and halfY / 2 rows (integer division) of the centre tile of
\* zoom - 1, whenever that level is within 2..18.
C27_PrefetchExtentAsymmetry ==
    fn = "GetPrefetchTiles" =>
        LET halfX == PrefetchHalf(args.width)
            halfY == PrefetchHalf(args.height)
            in == LatLonToTile(args.lat, args.lon, args.zoom + 1)
            out == LatLonToTile(args.lat, args.lon, args.zoom - 1)
        IN  /\ AtZoom(args.zoom) = {t \in Rectangle(CenterTile, halfX, halfY) : OnMap(t)}
            /\ args.zoom + 1 \in MinZoom..MaxZoom =>
                  AtZoom(args.zoom + 1) = {t \in Rectangle(in, halfX, halfY) : OnMap(t)}
            /\ args.zoom - 1 \in MinZoom..MaxZoom =>
                  AtZoom(args.zoom - 1) =
                      {t \in Rectangle(out, halfX \div 2, halfY \div 2) : OnMap(t)}

\* GetPrefetchTiles for 1280 x 720 around Amsterdam at zoom 12 (half extent 8
\* by 5) has returned 17 * 11 tiles of zoom 12, 9 * 5 of zoom 11 and 17 * 11 of
\* zoom 13.
C27_Witness ==
    /\ fn = "GetPrefetchTiles"
    /\ args = [lat |-> 523676, lon |-> 49041, zoom |-> 12, width |-> 1280, height |-> 720]
    /\ Cardinality(AtZoom(12)) = 187
    /\ Cardinality(AtZoom(11)) = 45
    /\ Cardinality(AtZoom(13)) = 187

\* C28: for a zoom within 2..18 every coordinate GetVisibleTiles returns is
\* also returned by GetPrefetchTiles for the same arguments.
C28_PrefetchCoversVisible ==
    (fn = "GetPrefetchTiles" /\ args.zoom \in MinZoom..MaxZoom) =>
        Range(GetVisibleTiles(args.lat, args.lon, args.zoom, args.width, args.height))
            \subseteq Range(result)

\* GetPrefetchTiles for 1280 x 720 around Amsterdam at zoom 12 has returned
\* the 45 visible tiles and more.
C28_Witness ==
    /\ fn = "GetPrefetchTiles"
    /\ args = [lat |-> 523676, lon |-> 49041, zoom |-> 12, width |-> 1280, height |-> 720]
    /\ Len(GetVisibleTiles(args.lat, args.lon, args.zoom, args.width, args.height)) = 45
    /\ TileCoord(2099, 1344, 12) \in Range(result)
    /\ TileCoord(2107, 1348, 12) \in Range(result)
    /\ Len(result) > 45

\* C29: every coordinate GetVisibleTiles and GetPrefetchTiles return exists
\* at its own zoom level, and no coordinate is returned twice.
C29_TileSetsValidAndDistinct ==
    fn \in {"GetVisibleTiles", "GetPrefetchTiles"} =>
        /\ \A i \in 1..Len(result) : OnMap(result[i])
        /\ Cardinality(Range(result)) = Len(result)

\* GetPrefetchTiles at the north-west corner of the map at zoom 3 has
\* returned tiles of three zoom levels, fewer than the full grids because the
\* tiles off the map were left out.
C29_Witness ==
    /\ fn = "GetPrefetchTiles"
    /\ args = [lat |-> 900000, lon |-> -1800000, zoom |-> 3, width |-> 255, height |-> 255]
    /\ AtZoom(2) # {} /\ AtZoom(3) # {} /\ AtZoom(4) # {}
    /\ TileCoord(0, 0, 3) \in Range(result)
    /\ Len(result) < 25 + 9 + 25

\* C30 as stated: LatLonToTile(52.3676, 4.9041, 12) is the tile x = 2108,
\* y = 1364 of zoom 12.
C30_GoldenValue ==
    (fn = "LatLonToTile" /\ args.lat = 523676 /\ args.lon = 49041 /\ args.zoom = 12) =>
        result = <<TileCoord(2108, 1364, 12)>>

\* C30, amended: LatLonToTile(52.3676, 4.9041, 12) is the tile x = 2103,
\* y = 1346 of zoom 12.
C30_GoldenValueAmsterdam ==
    (fn = "LatLonToTile" /\ args.lat = 523676 /\ args.lon = 49041 /\ args.zoom = 12) =>
        result = <<TileCoord(2103, 1346, 12)>>

\* LatLonToTile(52.3676, 4.9041, 12) has returned.
C30_Witness ==
    /\ fn = "LatLonToTile"
    /\ args.lat = 523676 /\ args.lon = 49041 /\ args.zoom = 12
    /\ result[1].X = 2103
    /\ result[1].Y = 1346

\* A point of the Web Mercator map: a latitude within 85.0511 degrees of the
\* equator and a longitude from -180 up to, not including, 180.
ValidPoint ==
    /\ args.lat \in {850000, 523676, 0, -850000}
    /\ args.lon >= -1800000 /\ args.lon < 1800000

\* C31: for a valid point the corner TileToLatLon returns for the point's tile
\* maps back, at the same zoom, to that tile.
C31_RoundTrip ==
    (fn = "RoundTrip" /\ ValidPoint) => result = <<CenterTile>>

(***************************************************************************)
(* Properties of the camera, over CameraSpec.                              *)
(***************************************************************************)
\* C39: the Zoom of a camera created with a zoom within 2..18 is within 2..18
\* after any calls of its methods, whatever their integer arguments and
\* whatever the points and distances, also while a call is inside
\* clampPosition; ZoomIn at 18 and ZoomOut at 2 leave zoom and position as
\* they were; ZoomTo sets the zoom to its argument clamped to 2..18; and a
\* ZoomAtPoint whose clamped target is the current zoom returns and leaves the
\* zoom and the position as they were.
C39_CameraZoomInRange ==
    /\ camera.Zoom \in MinZoom..MaxZoom
    /\ (cameraOp.name = "ZoomIn" /\ cameraOp.zoom = MaxZoom)
          => camera.Zoom = MaxZoom /\ camera.Pans = cameraOp.pans
    /\ (cameraOp.name = "ZoomOut" /\ cameraOp.zoom = MinZoom)
          => camera.Zoom = MinZoom /\ camera.Pans = cameraOp.pans
    /\ cameraOp.name = "ZoomTo"
          => camera.Zoom = ClampZoom(cameraOp.arg) /\ camera.Pans = cameraOp.pans
    /\ (/\ cameraOp.name = "ZoomAtPoint"
        /\ ClampZoom(Add64(cameraOp.zoom, cameraOp.arg)) = cameraOp.zoom)
          => /\ camera.Zoom = cameraOp.zoom
             /\ camera.Pans = cameraOp.pans
             /\ cameraPc = "ready"

\* C39, witness: a camera that has moved is at zoom 18, and ZoomAtPoint was
\* called on it with delta 1: zoom and position are as they were.
C39_Witness ==
    /\ cameraOp.name = "ZoomAtPoint"
    /\ cameraOp.arg = Small(1)
    /\ cameraOp.zoom = MaxZoom
    /\ cameraOp.pans > 0
    /\ camera.Zoom = MaxZoom
    /\ camera.Pans = cameraOp.pans
    /\ cameraPc = "ready"

\* ZoomAtPoint has been called at zoom 18 with the greatest int: the sum
\* wrapped around and the camera is at zoom 2.
C39_WrappedDelta ==
    /\ cameraOp.name = "ZoomAtPoint"
    /\ cameraOp.arg = Int64("max", 0)
    /\ cameraOp.zoom = MaxZoom
    /\ camera.Zoom = MinZoom

\* ZoomAtPoint has been called with a far cursor and a delta that changes the
\* zoom: the zoom is set and the call is inside clampPosition for good.
C39_StuckInClampPosition ==
    /\ cameraOp.name = "ZoomAtPoint"
    /\ cameraPc = "clampPosition"
    /\ camera.Zoom # cameraOp.zoom

(***************************************************************************)
(* Properties of the vector cache.                                         *)
(***************************************************************************)
\* C4: when no fetch fails, at most one fetchAndParse call is made for each
\* key, whatever the interleaving of GetTile calls.
C4_VectorExactlyOneFetch ==
    \A k \in VectorRequests : vfaults = 0 => vnetCount[k] <= 1

\* C5: the signal of a successful fetch fires only after the record is in the
\* map: a waiter released by it finds the record there.
C5_SignalAfterResult ==
    \A p \in Callers :
        (vpc[p] = "v_reread" /\ vhow[p] = "joined_ok") => vkey[p] \in DOMAIN vtiles

\* C6: a GetTile caller that waited on a fetch which failed returns an error.
C6_VectorWaitersSeeFailure ==
    \A p \in Callers :
        (vpc[p] = "done" /\ vhow[p] = "joined_neterr") => vdata[p].err

\* C9: a failed vector fetch leaves nothing behind. HasTile is true only of
\* keys fetched and decoded successfully, the registry has no entry for a key
\* nobody is fetching, and a GetTile issued for an uncached key nobody is
\* fetching does not return before a new fetchAndParse call for the key has
\* been made.
C9_VectorFailureNotCached ==
    /\ [](\A k \in VectorRequests :
            /\ HasTile(k[1], k[2], k[3]) => k \in vnetOk
            /\ VQuiet(k) => k \notin DOMAIN vinFlight)
    /\ [][\A p \in Callers :
            (vpc[p] \notin {"idle", "done"} /\ vpc'[p] = "done" /\ vseen[p] >= 0)
                => vnetCount'[vkey[p]] > vseen[p]]_vars

\* C9, witness: after a failed fetch for a key, with the map and the registry
\* empty for it, a later GetTile has fetched the tile again.
C9_Witness ==
    \E p \in Callers :
        /\ vpc[p] = "v_dlock"
        /\ vseen[p] >= 1
        /\ vfaults >= 1
        /\ ~vdata[p].err
        /\ ~HasTile(vkey[p][1], vkey[p][2], vkey[p][3])

\* A step in which caller p gets the answer of a HasTile call.
HasTileStep(p) == hasTile'[p] # hasTile[p]

\* C22: the vector cache never evicts: a key HasTile reports as present is
\* still present after every later step of any GetTile or HasTile call on any
\* key; and a HasTile call answers whether the key is in the map, changes
\* nothing of the cache and starts no fetch.
C22_NoEviction ==
    [][/\ \A k \in VectorRequests : HasTile(k[1], k[2], k[3]) => HasTile(k[1], k[2], k[3])'
       /\ \A p \in Callers :
             HasTileStep(p) =>
               /\ hasTile'[p].ok = (hasTile'[p].key \in DOMAIN vtiles)
               /\ UNCHANGED <<vtiles, vinFlight, vmu, vchan, vpc, vkey, vch, vdata, vnetCount,
                              vnetOk, vfaults>>]_vars

\* A caller was told by HasTile that a key is present and has then fetched
\* and decoded another key, which it is about to insert; the first key is
\* still present.
C22_Witness ==
    \E p \in Callers :
        /\ hasTile[p].ok
        /\ vpc[p] = "v_result"
        /\ ~vdata[p].err
        /\ vkey[p] # hasTile[p].key
        /\ hasTile[p].key \in DOMAIN vtiles

\* C32: every vector GetTile call that has returned holds either a record and
\* a nil error or the nil pointer and an error, never the nil pointer with a
\* nil error.
C32_NoEmptySuccess ==
    \A p \in Callers :
        vpc[p] = "done" =>
            \/ ~vdata[p].err /\ vdata[p].data # Nil
            \/ vdata[p].err /\ vdata[p].data = Nil

====
